---- MODULE Spec2Model ----
(***************************************************************************)
(* audo-eq: reference mastering.  The model covers the loudness / true-    *)
(* peak convergence loop of audo_eq/processing.py, the decision mapper and *)
(* strategy selector of audo_eq/decision.py and the reference-match EQ     *)
(* deriver of audo_eq/analysis.py.                                         *)
(*                                                                         *)
(* Numbers are fixed point.  Levels of the convergence loop (dB, LUFS,     *)
(* dBTP) are in hundredths of a dB: -1.0 dBTP is -100.                     *)
(***************************************************************************)
EXTENDS Integers, Sequences, FiniteSets, TLC

VARIABLES
    pc,                  \* position of the run inside the function being executed
    profile,             \* mastering profile name of the run
    limiter_ceiling_db,  \* decision.limiter_ceiling_db, the Limiter's threshold_db
    target_lufs,         \* target_lufs argument
    audio,               \* the buffer in flight: [peak |-> dBTP, lufs |-> LUFS]
    final_lufs,          \* local final_lufs
    correction_db,       \* local correction_db
    limiter_calls,       \* number of times the limiter has been invoked
    gain_log,            \* static Gain stages applied after the first limiter pass
    lufs_trace,          \* loudness of the buffer after each limiter pass
    hard_ceiling,        \* whether the Limiter primitive behaves as a hard ceiling
    analysis,            \* AnalysisPayload given to decide_mastering
    strategy,            \* strategy argument: "None" or the id of the policy passed in
    advanced_mode,       \* advanced_mode argument
    selection,           \* decide_mastering's local selected_strategy
    decision,            \* DecisionPayload returned by decide_mastering
    de_esser_mode,       \* DeEsserMode of the chain being built
    de_esser_stage,      \* stages returned by _build_optional_de_esser_stage
    deltas_db,           \* _derive_eq_band_corrections' local deltas_db, one per band
    eq_band_corrections  \* the EqBandCorrection tuple it returns

loop_vars ==
    << pc, profile, limiter_ceiling_db, target_lufs, audio, final_lufs,
       correction_db, limiter_calls, gain_log, lufs_trace, hard_ceiling >>

decide_vars ==
    << analysis, strategy, advanced_mode, selection, decision, de_esser_mode,
       de_esser_stage >>

eq_vars == << deltas_db, eq_band_corrections >>

VARIABLES
    lk_pc,               \* position of a call that looks a profile name up
    lk_entry,            \* the function called
    lk_name,             \* the profile name passed in
    lk_preset,           \* the eq_preset passed in
    lk_profile,          \* the profile name handed to the tuning lookups
    lk_error,            \* the exception leaving the call, if any
    lk_log,              \* lookups and stages executed, in order
    lk_used              \* the profile each stage took its tunings from, in order

lookup_vars ==
    << lk_pc, lk_entry, lk_name, lk_preset, lk_profile, lk_error, lk_log, lk_used >>

VARIABLES
    sv_pc,               \* position inside MasterTrackAgainstReference.master_bytes
    sv_input,            \* the call: emptiness of the byte strings, correlation id, fault
    sv_cid,              \* local run_correlation_id
    sv_events,           \* events handed to event_publisher.publish, in order
    sv_steps,            \* validation, decoding, analysis and rendering steps executed
    sv_pending,          \* the exception caught by the except clause
    sv_raised,           \* the exception leaving master_bytes
    sv_returned          \* whether master_bytes returned the mastered bytes

service_vars ==
    << sv_pc, sv_input, sv_cid, sv_events, sv_steps, sv_pending, sv_raised, sv_returned >>

VARIABLES
    ps_pc,               \* position of a persistence request
    ps_call,             \* who persists, under which policy, after which mastering result
    ps_result,           \* the PersistedArtifact the repository returned
    ps_error,            \* the exception PersistMasteredArtifact.run raised
    ps_response,         \* what the caller gets: run's return value or the HTTP response
    ps_published         \* events the API handler published

persist_vars == << ps_pc, ps_call, ps_result, ps_error, ps_response, ps_published >>

VARIABLES
    bt_pc,               \* position of run_batch_mastering's main thread
    bt_rows,             \* the resolved input rows
    bt_limit,            \* concurrency_limit
    bt_futures,          \* one future per submitted row
    bt_results,          \* local results
    bt_summary,          \* local summary
    bt_raised            \* the exception leaving run_batch_mastering

batch_vars == << bt_pc, bt_rows, bt_limit, bt_futures, bt_results, bt_summary, bt_raised >>

VARIABLES
    ch_pc,               \* position inside apply_processing
    ch_decision,         \* the DecisionPayload being rendered
    ch_args,             \* eq_mode, eq_preset, eq_band_corrections, de_esser_mode, ...
    ch_applied,          \* what has been applied to the buffer, in order
    ch_plugins           \* the plugin list build_dsp_chain returned

chain_vars == << ch_pc, ch_decision, ch_args, ch_applied, ch_plugins >>

VARIABLES
    fr_pc,               \* position inside _short_time_metrics
    fr_args,             \* signal length, sample rate, window and overlap
    fr_signal,           \* local signal, after padding
    fr_starts,           \* start index of every frame collected
    fr_out               \* the sequences _short_time_metrics returns

frame_vars == << fr_pc, fr_args, fr_signal, fr_starts, fr_out >>

dsp_vars == << chain_vars, frame_vars >>

app_vars == << lookup_vars, service_vars, persist_vars, batch_vars, dsp_vars >>

other_than_lookup ==
    << loop_vars, decide_vars, eq_vars, service_vars, persist_vars, batch_vars, dsp_vars >>

other_than_service ==
    << loop_vars, decide_vars, eq_vars, lookup_vars, persist_vars, batch_vars, dsp_vars >>

other_than_persist ==
    << loop_vars, decide_vars, eq_vars, lookup_vars, service_vars, batch_vars, dsp_vars >>

other_than_batch ==
    << loop_vars, decide_vars, eq_vars, lookup_vars, service_vars, persist_vars, dsp_vars >>

other_than_chain ==
    << loop_vars, decide_vars, eq_vars, lookup_vars, service_vars, persist_vars, batch_vars,
       frame_vars >>

other_than_frame ==
    << loop_vars, decide_vars, eq_vars, lookup_vars, service_vars, persist_vars, batch_vars,
       chain_vars >>

vars == << loop_vars, decide_vars, eq_vars, app_vars >>

----------------------------------------------------------------------------
(* Bounds of the model. *)

\* the limiter may land 0..MaxLimiterSlack hundredths below its bound
MaxLimiterSlack == 1
\* a limiter that is no hard ceiling may overshoot by up to this many steps
MaxOvershootSteps == 2

----------------------------------------------------------------------------
(* Helpers. *)

Abs(x) == IF x < 0 THEN -x ELSE x

Min(a, b) == IF a <= b THEN a ELSE b

Max(a, b) == IF a >= b THEN a ELSE b

\* np.clip(value, low, high)
\* a clamp that forgets its upper bound
clamp_low_only(value, low, high) == IF value < low THEN low ELSE value

clamp(value, low, high) == IF value < low THEN low ELSE IF value > high THEN high ELSE value

\* floor(x * num / den) without forming the full product (den > 0)
scale_floor(x, num, den) == (x \div den) * num + ((x % den) * num) \div den

\* clamp(x * num / den, low, high) for x >= 0, num > 0, 0 <= low <= high, floored
\* to the unit; saturates before the product can leave the 32-bit range
clamp_scaled(x, num, den, low, high) ==
    IF x \div den > high \div num THEN high
    ELSE clamp(scale_floor(x, num, den), low, high)

\* -np.inf: the true peak of a silent buffer, the loudness a meter gives for silence
NegInf == -1000000

\* np.inf and np.nan, as a meter may read them on a buffer of overflowed or
\* invalid samples
PosInf == 1000000

NaN == 2000000

\* np.isfinite
isfinite(x) == x \notin {NegInf, PosInf, NaN}

Profiles == {"default", "conservative", "aggressive"}

----------------------------------------------------------------------------
(* Tuning tables of processing.py, in hundredths of a dB. *)

LOUDNESS_TUNINGS ==
    [ default      |-> [post_limiter_lufs_tolerance |-> 30, max_post_limiter_correction_db |-> 150],
      conservative |-> [post_limiter_lufs_tolerance |-> 45, max_post_limiter_correction_db |-> 100],
      aggressive   |-> [post_limiter_lufs_tolerance |-> 20, max_post_limiter_correction_db |-> 200] ]

TRUE_PEAK_TUNINGS ==
    [ default      |-> [target_dbtp |-> -100, tolerance_db |-> 10, oversample_factor |-> 4],
      conservative |-> [target_dbtp |-> -120, tolerance_db |-> 8,  oversample_factor |-> 4],
      aggressive   |-> [target_dbtp |-> -80,  tolerance_db |-> 12, oversample_factor |-> 4] ]

resolve_loudness_tuning(p) == LOUDNESS_TUNINGS[p]

resolve_true_peak_tuning(p) == TRUE_PEAK_TUNINGS[p]

----------------------------------------------------------------------------
(* Tuning tables of decision.py.  Units, chosen so that every product of   *)
(* decide_mastering is an integer:                                         *)
(*   rms_db, crest_factor_db, gain_db, limiter ceilings   1e-2 dB          *)
(*   band energies (low / mid / high)                     1e-3             *)
(*   sibilance_ratio, de_esser_threshold                  1e-8             *)
(*   shelf gains, compressor threshold                    1e-5 dB          *)
(*   compressor ratio                                     1e-6             *)
(*   de_esser_depth_db                                    1e-8 dB          *)
(*   shelf_scale, de_esser_depth_scale                    1                *)
(*   compressor_threshold_scale                           1e-1             *)
(*   compressor_ratio_scale, de_esser_threshold_delta_scale, policy scales *)
(*                                                        1e-2             *)
(***************************************************************************)

DECISION_TUNINGS ==
    [ default |->
        [ gain_clamp_db |-> << -800, 800 >>,
          shelf_scale |-> 12,
          shelf_clamp_db |-> << -300000, 300000 >>,
          compressor_base_threshold_db |-> -2200000,
          compressor_threshold_scale |-> 12,
          compressor_threshold_clamp_db |-> << -3000000, -1400000 >>,
          compressor_base_ratio |-> 2200000,
          compressor_ratio_scale |-> 30,
          compressor_ratio_clamp |-> << 1500000, 4000000 >>,
          limiter_ceiling_clipping_db |-> -100,
          limiter_ceiling_default_db |-> -90,
          de_esser_threshold_base |-> 8000000,
          de_esser_threshold_delta_scale |-> 20,
          de_esser_threshold_clamp |-> << 4000000, 20000000 >>,
          de_esser_depth_scale |-> 30,
          de_esser_depth_clamp_db |-> << 0, 600000000 >> ],
      conservative |->
        [ gain_clamp_db |-> << -600, 600 >>,
          shelf_scale |-> 9,
          shelf_clamp_db |-> << -225000, 225000 >>,
          compressor_base_threshold_db |-> -2000000,
          compressor_threshold_scale |-> 8,
          compressor_threshold_clamp_db |-> << -2700000, -1600000 >>,
          compressor_base_ratio |-> 1900000,
          compressor_ratio_scale |-> 20,
          compressor_ratio_clamp |-> << 1300000, 3000000 >>,
          limiter_ceiling_clipping_db |-> -110,
          limiter_ceiling_default_db |-> -100,
          de_esser_threshold_base |-> 10000000,
          de_esser_threshold_delta_scale |-> 15,
          de_esser_threshold_clamp |-> << 5000000, 22000000 >>,
          de_esser_depth_scale |-> 24,
          de_esser_depth_clamp_db |-> << 0, 400000000 >> ],
      aggressive |->
        [ gain_clamp_db |-> << -900, 900 >>,
          shelf_scale |-> 14,
          shelf_clamp_db |-> << -400000, 400000 >>,
          compressor_base_threshold_db |-> -2400000,
          compressor_threshold_scale |-> 15,
          compressor_threshold_clamp_db |-> << -3200000, -1200000 >>,
          compressor_base_ratio |-> 2600000,
          compressor_ratio_scale |-> 45,
          compressor_ratio_clamp |-> << 1800000, 5000000 >>,
          limiter_ceiling_clipping_db |-> -90,
          limiter_ceiling_default_db |-> -70,
          de_esser_threshold_base |-> 7000000,
          de_esser_threshold_delta_scale |-> 25,
          de_esser_threshold_clamp |-> << 3500000, 18000000 >>,
          de_esser_depth_scale |-> 36,
          de_esser_depth_clamp_db |-> << 0, 800000000 >> ] ]

resolve_decision_tuning(p) == DECISION_TUNINGS[p]

DecisionStrategyPolicy(id, eq, dyn, depth, thr_offset, ceiling_offset) ==
    [ strategy_id |-> id,
      eq_intensity_scale |-> eq,
      dynamics_aggressiveness_scale |-> dyn,
      de_esser_depth_scale |-> depth,
      de_esser_threshold_offset |-> thr_offset,
      limiter_ceiling_offset_db |-> ceiling_offset ]

DECISION_STRATEGY_POLICIES ==
    [ balanced         |-> DecisionStrategyPolicy("balanced", 100, 100, 100, 0, 0),
      bass_control     |-> DecisionStrategyPolicy("bass_control", 120, 110, 100, 0, -5),
      harsh_tame       |-> DecisionStrategyPolicy("harsh_tame", 115, 100, 120, -1000000, 0),
      dynamic_rescue   |-> DecisionStrategyPolicy("dynamic_rescue", 100, 130, 100, 0, -10),
      clip_guard       |-> DecisionStrategyPolicy("clip_guard", 100, 115, 100, 0, -20),
      corrective_combo |-> DecisionStrategyPolicy("corrective_combo", 120, 125, 125, -1000000, -20) ]

PolicyIds == DOMAIN DECISION_STRATEGY_POLICIES

\* a limiter ceiling that leaves out the policy's offset
limiter_ceiling_no_offset(tuning, is_clipping, policy) ==
    IF is_clipping THEN tuning.limiter_ceiling_clipping_db
    ELSE tuning.limiter_ceiling_default_db

\* decide_mastering, the limiter ceiling: the profile's clipping-case or default
\* ceiling plus the policy's offset
limiter_ceiling(tuning, is_clipping, policy) ==
    (IF is_clipping THEN tuning.limiter_ceiling_clipping_db
                    ELSE tuning.limiter_ceiling_default_db)
    + policy.limiter_ceiling_offset_db

----------------------------------------------------------------------------
(* The loudness / true-peak convergence loop:                              *)
(* processing.apply_processing_with_loudness_target.                       *)
(*                                                                         *)
(* A buffer is abstracted to what the two meters read on it: its true peak *)
(* (measure_true_peak_dbtp) and its integrated loudness (the meter used by *)
(* measure_integrated_lufs), NegInf for a silent buffer.  The Limiter is   *)
(* an external primitive (pedalboard.Limiter): its output is any buffer,   *)
(* and when hard_ceiling holds, one whose peak is neither above            *)
(* threshold_db nor above the peak of its input.                           *)
(***************************************************************************)

\* every limiter_ceiling_db that decide_mastering can produce
ProducibleCeilings ==
    { limiter_ceiling(DECISION_TUNINGS[p], c, DECISION_STRATEGY_POLICIES[s]) :
        p \in Profiles, c \in BOOLEAN, s \in PolicyIds }

TargetLufsLevels == {-1400}

\* loudness readings relative to target_lufs: far below, below, just inside and
\* exactly on each profile's tolerance, above
LufsOffsets == {-400, -100, -45, -30, -20, -5, 30, 300}

LufsLevels(target) == { target + d : d \in LufsOffsets } \cup {NegInf, PosInf, NaN}

\* true peak of the buffer leaving the pre-limiter chain
PreLimiterPeaks == {NegInf, -600, -95, 300}

\* pedalboard Gain(gain_db): a static gain shifts peak and loudness alike
Gain(gain_db, a) ==
    [ peak |-> IF a.peak = NegInf THEN NegInf ELSE a.peak + gain_db,
      lufs |-> IF isfinite(a.lufs) THEN a.lufs + gain_db ELSE a.lufs ]

\* peaks the limiter may leave for an input peak: at or a little under
\* min(input, threshold), well under it, and, when it is no hard ceiling, above it
LimiterPeaks(in_peak, threshold_db, hard) ==
    IF in_peak = NegInf THEN {NegInf}
    ELSE LET bound == Min(in_peak, threshold_db)
         IN  { bound - k : k \in 0..MaxLimiterSlack } \cup { bound - 50 }
             \cup (IF hard THEN {}
                   ELSE { threshold_db + 15 * k : k \in 1..MaxOvershootSteps })

\* limiter(audio, sample_rate) with Limiter(threshold_db=decision.limiter_ceiling_db)
Limiter(a, threshold_db, hard, target) ==
    { [peak |-> p, lufs |-> l] :
        p \in LimiterPeaks(a.peak, threshold_db, hard),
        l \in (IF a.peak = NegInf THEN {NegInf} ELSE LufsLevels(target)) }

\* measure_integrated_lufs that hands on whatever the meter reads
measure_integrated_lufs_unfloored(a) == a.lufs

\* measure_integrated_lufs: a non-finite meter reading resolves to -70.0
measure_integrated_lufs(a) == IF ~isfinite(a.lufs) THEN -7000 ELSE a.lufs

\* measure_true_peak_dbtp: -inf for a buffer with no non-zero sample
measure_true_peak_dbtp(a) == a.peak

\* correction_db = clip(target_lufs - final_lufs, +/-max_post_limiter_correction_db)
post_limiter_correction_db(target, measured, tuning) ==
    clamp(target - measured,
          -tuning.max_post_limiter_correction_db,
          tuning.max_post_limiter_correction_db)

\* needs_correction with the comparison off by one case: a correction exactly on
\* the tolerance is skipped
needs_correction_strict(corr, tuning) == Abs(corr) > tuning.post_limiter_lufs_tolerance

\* the branch "abs(correction_db) < post_limiter_lufs_tolerance" is not taken
needs_correction(corr, tuning) == ~(Abs(corr) < tuning.post_limiter_lufs_tolerance)

\* the comparison without its equality case
tp_within_tolerance_strict(tp_overshoot_db, tuning) == tp_overshoot_db < tuning.tolerance_db

\* apply_true_peak_guard: "tp_overshoot_db <= tuning.tolerance_db"
tp_within_tolerance(tp_overshoot_db, tuning) == tp_overshoot_db <= tuning.tolerance_db

\* gain_trim_db with the sign lost: the trim boosts
gain_trim_db_boost(tp_overshoot_db, tuning) == tp_overshoot_db + tuning.tolerance_db

\* apply_true_peak_guard: gain_trim_db = -(tp_overshoot_db + tuning.tolerance_db)
gain_trim_db(tp_overshoot_db, tuning) == -(tp_overshoot_db + tuning.tolerance_db)

\* a profile name as passed by a caller: None, or a text with or without
\* upper-case letters and surrounding whitespace
ProfileName(text, upper, pad) == [ given |-> TRUE, text |-> text, upper |-> upper, pad |-> pad ]

NoName == [ given |-> FALSE, text |-> "", upper |-> FALSE, pad |-> FALSE ]

NoError == [ exc |-> "none", value |-> "none", allowed |-> {} ]

\* the variables of the profile lookups, in a run that does not execute them
LookupIdle ==
    /\ lk_pc = "idle"
    /\ lk_entry = "none"
    /\ lk_name = NoName
    /\ lk_preset = "neutral"
    /\ lk_profile = NoName
    /\ lk_error = NoError
    /\ lk_log = << >>
    /\ lk_used = << >>

\* the variables of master_bytes, in a run that does not call it
ServiceIdle ==
    /\ sv_pc = "idle"
    /\ sv_input = "none"
    /\ sv_cid = "none"
    /\ sv_events = << >>
    /\ sv_steps = << >>
    /\ sv_pending = "none"
    /\ sv_raised = "none"
    /\ sv_returned = FALSE

NoArtifact == [ status |-> "none", object_url |-> "None", destination |-> "None" ]

NoResponse == [ status_code |-> 0, code |-> "none", body |-> "none", persistence_status |-> "none" ]

\* the variables of artifact persistence, in a run that does not persist
PersistIdle ==
    /\ ps_pc = "idle"
    /\ ps_call = "none"
    /\ ps_result = NoArtifact
    /\ ps_error = "none"
    /\ ps_response = NoResponse
    /\ ps_published = << >>

NoSummary == [ total |-> 0, succeeded |-> 0, failed |-> 0 ]

\* the variables of run_batch_mastering, in a run that does not call it
BatchIdle ==
    /\ bt_pc = "idle"
    /\ bt_rows = << >>
    /\ bt_limit = 1
    /\ bt_futures = << >>
    /\ bt_results = << >>
    /\ bt_summary = NoSummary
    /\ bt_raised = "none"

\* the variables of apply_processing, in a run that does not call it
ChainIdle ==
    /\ ch_pc = "idle"
    /\ ch_decision = "none"
    /\ ch_args = "none"
    /\ ch_applied = << >>
    /\ ch_plugins = << >>

\* the variables of _short_time_metrics, in a run that does not call it
FrameIdle ==
    /\ fr_pc = "idle"
    /\ fr_args = "none"
    /\ fr_signal = 0
    /\ fr_starts = << >>
    /\ fr_out = "none"

DspIdle == ChainIdle /\ FrameIdle

AppIdle == LookupIdle /\ ServiceIdle /\ PersistIdle /\ BatchIdle /\ DspIdle

\* the variables of the EQ deriver, in a run that does not execute it
EqIdle ==
    /\ deltas_db = << >>
    /\ eq_band_corrections = << >>

\* the variables of decide_mastering, in a run that does not execute it
DecideIdle ==
    /\ analysis = "none"
    /\ strategy = "None"
    /\ advanced_mode = FALSE
    /\ selection = "none"
    /\ decision = "none"
    /\ de_esser_mode = "off"
    /\ de_esser_stage = << >>

InitLoop ==
    /\ pc = "render"
    /\ profile \in Profiles
    /\ limiter_ceiling_db \in ProducibleCeilings
    /\ target_lufs \in TargetLufsLevels
    /\ hard_ceiling \in BOOLEAN
    /\ audio \in { [peak |-> p, lufs |-> IF p = NegInf THEN NegInf ELSE target_lufs - 400] :
                      p \in PreLimiterPeaks }
    /\ final_lufs = 0
    /\ correction_db = 0
    /\ limiter_calls = 0
    /\ gain_log = << >>
    /\ lufs_trace = << >>
    /\ DecideIdle
    /\ EqIdle
    /\ AppIdle

\* limiter = Limiter(...); limited_audio = limiter(pre_limiter_audio, sample_rate)
RenderAndLimit ==
    /\ pc = "render"
    /\ \E out \in Limiter(audio, limiter_ceiling_db, hard_ceiling, target_lufs) :
          /\ audio' = out
          /\ lufs_trace' = Append(lufs_trace, out.lufs)
    /\ limiter_calls' = limiter_calls + 1
    /\ pc' = "measure"
    /\ UNCHANGED << profile, limiter_ceiling_db, target_lufs, final_lufs,
                    correction_db, gain_log, hard_ceiling, decide_vars, eq_vars, app_vars >>

\* final_lufs = measure_integrated_lufs(limited_audio); correction_db = clip(...);
\* then the branch on the tolerance
MeasureLoudness ==
    /\ pc = "measure"
    /\ LET tuning   == resolve_loudness_tuning(profile)
           measured == measure_integrated_lufs(audio)
           corr     == post_limiter_correction_db(target_lufs, measured, tuning)
       IN  /\ final_lufs' = measured
           /\ correction_db' = corr
           /\ pc' = IF needs_correction(corr, tuning) THEN "correct" ELSE "guard"
    /\ UNCHANGED << profile, limiter_ceiling_db, target_lufs, audio,
                    limiter_calls, gain_log, lufs_trace, hard_ceiling, decide_vars, eq_vars, app_vars >>

\* post_gain = Gain(gain_db=correction_db); corrected_limited_audio = limiter(...)
ApplyCorrection ==
    /\ pc = "correct"
    /\ \E out \in Limiter(Gain(correction_db, audio), limiter_ceiling_db,
                          hard_ceiling, target_lufs) :
          /\ audio' = out
          /\ lufs_trace' = Append(lufs_trace, out.lufs)
    /\ gain_log' = Append(gain_log, [kind |-> "correction", gain_db |-> correction_db])
    /\ limiter_calls' = limiter_calls + 1
    /\ pc' = "guard"
    /\ UNCHANGED << profile, limiter_ceiling_db, target_lufs, final_lufs,
                    correction_db, hard_ceiling, decide_vars, eq_vars, app_vars >>

\* apply_true_peak_guard that re-limits the buffer it should return unchanged
apply_true_peak_guard_relimits ==
    /\ pc = "guard"
    /\ LET tuning          == resolve_true_peak_tuning(profile)
           measured_dbtp   == measure_true_peak_dbtp(audio)
           tp_overshoot_db == measured_dbtp - tuning.target_dbtp
           trim            == gain_trim_db(tp_overshoot_db, tuning)
           trimmed         == IF tp_within_tolerance(tp_overshoot_db, tuning)
                              THEN audio ELSE Gain(trim, audio)
       IN  /\ \E out \in Limiter(trimmed, limiter_ceiling_db, hard_ceiling, target_lufs) :
                 /\ audio' = out
                 /\ lufs_trace' = Append(lufs_trace, out.lufs)
           /\ gain_log' = IF tp_within_tolerance(tp_overshoot_db, tuning)
                          THEN gain_log
                          ELSE Append(gain_log, [kind |-> "trim", gain_db |-> trim])
           /\ limiter_calls' = limiter_calls + 1
    /\ pc' = "done"
    /\ UNCHANGED << profile, limiter_ceiling_db, target_lufs, final_lufs,
                    correction_db, hard_ceiling, decide_vars, eq_vars, app_vars >>

\* apply_true_peak_guard(audio, sample_rate, limiter, tuning), whose result the
\* loop returns
apply_true_peak_guard ==
    /\ pc = "guard"
    /\ LET tuning          == resolve_true_peak_tuning(profile)
           measured_dbtp   == measure_true_peak_dbtp(audio)
           tp_overshoot_db == measured_dbtp - tuning.target_dbtp
           trim            == gain_trim_db(tp_overshoot_db, tuning)
       IN  IF tp_within_tolerance(tp_overshoot_db, tuning)
           THEN UNCHANGED << audio, limiter_calls, gain_log, lufs_trace >>
           ELSE /\ \E out \in Limiter(Gain(trim, audio), limiter_ceiling_db,
                                      hard_ceiling, target_lufs) :
                      /\ audio' = out
                      /\ lufs_trace' = Append(lufs_trace, out.lufs)
                /\ gain_log' = Append(gain_log, [kind |-> "trim", gain_db |-> trim])
                /\ limiter_calls' = limiter_calls + 1
    /\ pc' = "done"
    /\ UNCHANGED << profile, limiter_ceiling_db, target_lufs, final_lufs,
                    correction_db, hard_ceiling, decide_vars, eq_vars, app_vars >>

NextLoop ==
    \/ RenderAndLimit
    \/ MeasureLoudness
    \/ ApplyCorrection
    \/ apply_true_peak_guard

Init == InitLoop

Next == NextLoop

Spec == Init /\ [][Next]_vars

\* the run is synchronous and single-threaded: a step that can be taken is taken
LiveSpec == Spec /\ WF_vars(Next)

----------------------------------------------------------------------------
(* Properties of the convergence loop. *)

Corrections == SelectSeq(gain_log, LAMBDA g : g.kind = "correction")

Trims == SelectSeq(gain_log, LAMBDA g : g.kind = "trim")

LimiterCountOK ==
    /\ limiter_calls \in 0..3
    /\ Len(Corrections) <= 1
    /\ Len(Trims) <= 1
    /\ pc \in {"guard", "done"} => limiter_calls >= 1
    /\ pc = "done" => limiter_calls = 1 + Len(Corrections) + Len(Trims)

C2_TruePeakBound ==
    (hard_ceiling /\ pc = "done") =>
        audio.peak <= TRUE_PEAK_TUNINGS[profile].target_dbtp
                      + TRUE_PEAK_TUNINGS[profile].tolerance_db

\* a hard-ceiling run, corrected and then trimmed by the guard because the
\* decision's ceiling lies above target_dbtp + tolerance_db
C2_Witness ==
    /\ hard_ceiling
    /\ pc = "done"
    /\ Len(Corrections) = 1
    /\ Len(Trims) = 1
    /\ limiter_ceiling_db > TRUE_PEAK_TUNINGS[profile].target_dbtp
                            + TRUE_PEAK_TUNINGS[profile].tolerance_db
    /\ audio.peak # NegInf

\* the correction the claim states, from the run's target and measured loudness
ClaimedCorrectionDb ==
    LET d == target_lufs - final_lufs
        m == LOUDNESS_TUNINGS[profile].max_post_limiter_correction_db
    IN  IF d > m THEN m ELSE IF d < -m THEN -m ELSE d

C4_IterativeConvergence ==
    ( /\ pc = "done"
      /\ profile = "default"
      /\ target_lufs = -1400
      /\ Len(Trims) = 0
      /\ Len(lufs_trace) >= 2
      /\ lufs_trace[1] = -1800
      /\ lufs_trace[2] = -1500 ) => limiter_calls = 3

\* what the claim lets the guard do to a buffer of the given true peak
ClaimedGuardStep ==
    LET target_dbtp  == TRUE_PEAK_TUNINGS[profile].target_dbtp
        tolerance_db == TRUE_PEAK_TUNINGS[profile].tolerance_db
        overshoot    == audio.peak - target_dbtp
        trim         == [kind |-> "trim", gain_db |-> 0 - (overshoot + tolerance_db)]
    IN  IF audio.peak - target_dbtp <= tolerance_db
        THEN /\ audio' = audio
             /\ limiter_calls' = limiter_calls
             /\ gain_log' = gain_log
        ELSE /\ gain_log' = Append(gain_log, trim)
             /\ limiter_calls' = limiter_calls + 1
             /\ audio' \in Limiter([ peak |-> audio.peak + trim.gain_db,
                                     lufs |-> IF isfinite(audio.lufs)
                                              THEN audio.lufs + trim.gain_db
                                              ELSE audio.lufs ],
                                   limiter_ceiling_db, hard_ceiling, target_lufs)

\* C20: apply_true_peak_guard returns its input unchanged, without calling the
\* limiter, iff measured_dbtp - target_dbtp <= tolerance_db (equality
\* included); otherwise it applies a static gain of exactly
\* -(overshoot + tolerance_db) dB followed by exactly one limiter pass.
C20_TruePeakGuard == [][pc = "guard" => ClaimedGuardStep]_vars

\* the guard has returned, untrimmed, a buffer whose true peak lies exactly
\* tolerance_db above target_dbtp
C20_Witness ==
    /\ pc = "done"
    /\ audio.peak = TRUE_PEAK_TUNINGS[profile].target_dbtp
                    + TRUE_PEAK_TUNINGS[profile].tolerance_db
    /\ Len(Trims) = 0
    /\ limiter_calls = 1 + Len(Corrections)

\* samples per analysis buffer
MaxSamples == 2

\* sample values, in thousandths of full scale
Samples == {-1000, 0, 1, 1000}

Buffers == UNION { [1..n -> Samples] : n \in 0..MaxSamples }

RECURSIVE sum_squares(_)
\* np.sum(np.square(audio))
sum_squares(a) == IF a = << >> THEN 0 ELSE Head(a) * Head(a) + sum_squares(Tail(a))

RECURSIVE ten_log10(_)
\* 10 * log10(x) in hundredths of a dB for an integer x >= 1, to the leading
\* digit of x
ten_log10(x) ==
    IF x < 10 THEN << 0, 301, 477, 602, 699, 778, 845, 903, 954 >>[x]
    ELSE 1000 + ten_log10(x \div 10)

\* analysis._rms_db: -96.0 for an empty buffer and for rms <= 0, else
\* 20 * log10(rms), in hundredths of a dB
rms_db(a) ==
    IF Len(a) = 0 THEN -9600
    ELSE IF sum_squares(a) <= 0 THEN -9600
    ELSE ten_log10(sum_squares(a)) - ten_log10(Len(a)) - 6000

\* the analysis precedes the loop: its buffers are read before the first pass
FloorsHold ==
    /\ pc = "render" =>
          \A b \in Buffers :
              /\ (\A i \in 1..Len(b) : b[i] = 0) => rms_db(b) = -9600
              /\ isfinite(rms_db(b))
    /\ pc \in {"correct", "guard", "done"} =>
          /\ ~isfinite(lufs_trace[1]) => final_lufs = -7000
          /\ isfinite(final_lufs)
          /\ isfinite(correction_db)
          /\ Abs(correction_db) <= LOUDNESS_TUNINGS[profile].max_post_limiter_correction_db

----------------------------------------------------------------------------
(* The strategy selector and the decision mapper of decision.py.           *)
(*                                                                         *)
(* Units of the advanced-mode fields:                                      *)
(*   multiband low / mid thresholds, low ratio, stereo gains   1e-3        *)
(*   multiband mid ratio                                       1e-4        *)
(*   multiband high threshold                                  5e-8 dB     *)
(*   multiband high ratio, dynamic-EQ attenuation              1e-8        *)
(*   dynamic-EQ harsh threshold                                1e-3        *)
(***************************************************************************)

\* AnalysisPayload.rms_delta_db
rms_delta_db(a) == a.reference.rms_db - a.target.rms_db

\* AnalysisPayload.sibilance_ratio_delta
sibilance_ratio_delta(a) == a.target.sibilance_ratio - a.reference.sibilance_ratio

\* select_decision_strategy: the conditions list, in the order it is appended to
classify_conditions(a) ==
    LET low_energy_delta  == a.target.low_band_energy - a.reference.low_band_energy
        high_energy_delta == a.target.high_band_energy - a.reference.high_band_energy
        crest_delta       == a.reference.crest_factor_db - a.target.crest_factor_db
    IN  (IF low_energy_delta >= 80 THEN << "bass_heavy" >> ELSE << >>)
        \o (IF high_energy_delta >= 80 \/ sibilance_ratio_delta(a) >= 2500000
            THEN << "harsh_upper_mids" >> ELSE << >>)
        \o (IF crest_delta >= 200 THEN << "over_compressed" >> ELSE << >>)
        \o (IF a.target.is_clipping \/ a.target.rms_db >= -900
            THEN << "clipping_prone" >> ELSE << >>)

\* a selector that ranks over_compressed above clipping_prone
select_policy_id_swapped(condition_set) ==
    IF Cardinality(condition_set) >= 3 THEN "corrective_combo"
    ELSE IF "over_compressed" \in condition_set THEN "dynamic_rescue"
    ELSE IF "clipping_prone" \in condition_set THEN "clip_guard"
    ELSE IF "harsh_upper_mids" \in condition_set THEN "harsh_tame"
    ELSE IF "bass_heavy" \in condition_set THEN "bass_control"
    ELSE "balanced"

\* select_decision_strategy: the policy chosen for a set of conditions
select_policy_id(condition_set) ==
    IF Cardinality(condition_set) >= 3 THEN "corrective_combo"
    ELSE IF "clipping_prone" \in condition_set THEN "clip_guard"
    ELSE IF "over_compressed" \in condition_set THEN "dynamic_rescue"
    ELSE IF "harsh_upper_mids" \in condition_set THEN "harsh_tame"
    ELSE IF "bass_heavy" \in condition_set THEN "bass_control"
    ELSE "balanced"

select_decision_strategy(a) ==
    LET conditions    == classify_conditions(a)
        condition_set == { conditions[i] : i \in 1..Len(conditions) }
    IN  [ policy     |-> DECISION_STRATEGY_POLICIES[select_policy_id(condition_set)],
          conditions |-> conditions ]

\* StrategySelection(policy=DECISION_STRATEGY_POLICIES[id], conditions=())
StrategySelection(id) == [ policy |-> DECISION_STRATEGY_POLICIES[id], conditions |-> << >> ]

\* decide_mastering: de_esser_threshold
de_esser_threshold_of(a, tuning, policy) ==
    clamp(tuning.de_esser_threshold_base
          + scale_floor(a.reference.sibilance_ratio, tuning.de_esser_threshold_delta_scale, 100)
          + policy.de_esser_threshold_offset,
          tuning.de_esser_threshold_clamp[1], tuning.de_esser_threshold_clamp[2])

\* decide_mastering: de_esser_depth_db.  twice_excess is
\* 2 * (sibilance_excess + 0.5 * sibilance_delta_excess)
de_esser_depth_of(a, tuning, policy) ==
    LET sibilance_excess       == Max(0, a.target.sibilance_ratio
                                         - de_esser_threshold_of(a, tuning, policy))
        sibilance_delta_excess == Max(0, sibilance_ratio_delta(a))
        twice_excess           == 2 * sibilance_excess + sibilance_delta_excess
    IN  clamp_scaled(twice_excess,
                     tuning.de_esser_depth_scale * policy.de_esser_depth_scale, 200,
                     tuning.de_esser_depth_clamp_db[1], tuning.de_esser_depth_clamp_db[2])

\* a shelf gain that leaves out the strategy's EQ intensity
shelf_gain_db_unscaled(delta, tuning, policy) ==
    clamp(delta * tuning.shelf_scale * 100,
          tuning.shelf_clamp_db[1], tuning.shelf_clamp_db[2])

\* decide_mastering: a shelf gain from a band-energy delta (reference - target)
shelf_gain_db(delta, tuning, policy) ==
    clamp(delta * tuning.shelf_scale * policy.eq_intensity_scale,
          tuning.shelf_clamp_db[1], tuning.shelf_clamp_db[2])

\* defaults that leave the multiband stage switched on
AdvancedDefaults_multiband_on ==
    [ multiband_compression_enabled |-> TRUE,
      multiband_low_threshold_db |-> -24000,
      multiband_low_ratio |-> 1000,
      multiband_mid_threshold_db |-> -24000,
      multiband_mid_ratio |-> 10000,
      multiband_high_threshold_db |-> -480000000,
      multiband_high_ratio |-> 100000000,
      dynamic_eq_enabled |-> FALSE,
      dynamic_eq_harsh_threshold |-> 0,
      dynamic_eq_harsh_attenuation_db |-> 0,
      stereo_ms_correction_enabled |-> FALSE,
      stereo_mid_gain_db |-> 0,
      stereo_side_gain_db |-> 0 ]

\* decide_mastering: the advanced-mode fields when advanced_mode is off
AdvancedDefaults ==
    [ multiband_compression_enabled |-> FALSE,
      multiband_low_threshold_db |-> -24000,
      multiband_low_ratio |-> 1000,
      multiband_mid_threshold_db |-> -24000,
      multiband_mid_ratio |-> 10000,
      multiband_high_threshold_db |-> -480000000,
      multiband_high_ratio |-> 100000000,
      dynamic_eq_enabled |-> FALSE,
      dynamic_eq_harsh_threshold |-> 0,
      dynamic_eq_harsh_attenuation_db |-> 0,
      stereo_ms_correction_enabled |-> FALSE,
      stereo_mid_gain_db |-> 0,
      stereo_side_gain_db |-> 0 ]

\* decide_mastering: the "if advanced_mode:" block
AdvancedFields(a) ==
    LET low_excess   == Max(0, a.target.low_band_energy - a.reference.low_band_energy)
        high_excess  == Max(0, a.target.high_band_energy - a.reference.high_band_energy)
        crest_miss   == Max(0, a.reference.crest_factor_db - a.target.crest_factor_db)
        high_drive   == high_excess * 100000 + sibilance_ratio_delta(a)
        harsh_thr    == clamp(a.reference.high_band_energy + 20, 40, 350)
        harsh_excess == Max(0, a.target.high_band_energy - harsh_thr) * 100000
                        + Max(0, sibilance_ratio_delta(a))
        harsh_att    == clamp_scaled(harsh_excess, 22, 1, 0, 450000000)
        mid_delta    == a.reference.mid_band_energy - a.target.mid_band_energy
        side_delta   == a.target.high_band_energy - a.reference.high_band_energy
        side_gain    == clamp(-(side_delta * 8), -1500, 1500)
        mid_gain     == clamp(mid_delta * 6, -1000, 1000)
    IN  [ multiband_compression_enabled |->
              (low_excess >= 40 \/ high_excess >= 40 \/ crest_miss >= 150),
          multiband_low_threshold_db |-> clamp(-26000 + low_excess * 30, -32000, -16000),
          multiband_low_ratio |-> clamp(1600 + low_excess * 6, 1200, 4000),
          multiband_mid_threshold_db |-> clamp(-24000 + crest_miss * 12, -30000, -16000),
          multiband_mid_ratio |-> clamp(15000 + crest_miss * 45, 12000, 38000),
          multiband_high_threshold_db |->
              clamp(-500000000 + high_drive * 5, -640000000, -300000000),
          multiband_high_ratio |-> clamp(150000000 + high_drive * 8, 120000000, 420000000),
          dynamic_eq_enabled |-> harsh_att > 0,
          dynamic_eq_harsh_threshold |-> harsh_thr,
          dynamic_eq_harsh_attenuation_db |-> harsh_att,
          stereo_ms_correction_enabled |-> (Abs(side_gain) >= 100 \/ Abs(mid_gain) >= 100),
          stereo_mid_gain_db |-> mid_gain,
          stereo_side_gain_db |-> side_gain ]

\* decide_mastering: selected_strategy = strategy or select_decision_strategy(analysis);
\* strategy_arg is "None" or the id of the policy of the StrategySelection passed in
selected_strategy_of(a, strategy_arg) ==
    IF strategy_arg = "None" THEN select_decision_strategy(a)
    ELSE StrategySelection(strategy_arg)

\* decide_mastering(analysis, profile, strategy, advanced_mode)
decide_mastering(a, prof, strategy_arg, advanced) ==
    LET tuning      == resolve_decision_tuning(prof)
        policy      == selected_strategy_of(a, strategy_arg).policy
        low_delta   == a.reference.low_band_energy - a.target.low_band_energy
        high_delta  == a.reference.high_band_energy - a.target.high_band_energy
        crest_delta == a.target.crest_factor_db - a.reference.crest_factor_db
    IN  [ gain_db |-> clamp(rms_delta_db(a), tuning.gain_clamp_db[1], tuning.gain_clamp_db[2]),
          low_shelf_gain_db |-> shelf_gain_db(low_delta, tuning, policy),
          high_shelf_gain_db |-> shelf_gain_db(high_delta, tuning, policy),
          compressor_threshold_db |->
              clamp(tuning.compressor_base_threshold_db
                    + crest_delta * tuning.compressor_threshold_scale
                      * policy.dynamics_aggressiveness_scale,
                    tuning.compressor_threshold_clamp_db[1],
                    tuning.compressor_threshold_clamp_db[2]),
          compressor_ratio |->
              clamp(tuning.compressor_base_ratio
                    + Max(0, crest_delta) * tuning.compressor_ratio_scale
                      * policy.dynamics_aggressiveness_scale,
                    tuning.compressor_ratio_clamp[1], tuning.compressor_ratio_clamp[2]),
          limiter_ceiling_db |-> limiter_ceiling(tuning, a.target.is_clipping, policy),
          de_esser_threshold |-> de_esser_threshold_of(a, tuning, policy),
          de_esser_depth_db |-> de_esser_depth_of(a, tuning, policy) ]
        @@ (IF advanced THEN AdvancedFields(a) ELSE AdvancedDefaults)

\* round(x, 6) of a value in units of 1e-8: to the nearest 1e-6, ties to even
round_6(x) ==
    LET m  == Abs(x)
        q  == m \div 100
        r  == m % 100
        up == r > 50 \/ (r = 50 /\ q % 2 = 1)
        v  == (IF up THEN q + 1 ELSE q) * 100
    IN  IF x < 0 THEN -v ELSE v

\* processing._build_optional_de_esser_stage(decision, de_esser_mode)
build_optional_de_esser_stage(d, mode) ==
    IF mode = "off" THEN << >>
    ELSE IF d.de_esser_depth_db <= 0 THEN << >>
    ELSE << [ plugin |-> "HighShelfFilter",
              cutoff_frequency_hz |-> 6500,
              gain_db |-> round_6(-d.de_esser_depth_db) ] >>

DeEsserModes == {"off", "auto"}

----------------------------------------------------------------------------
(* Inputs of decide_mastering: TrackMetrics of the target and the          *)
(* reference.  Levels straddle the selector's thresholds (low / high       *)
(* excess 0.04 and 0.08, crest miss 1.5 and 2 dB, rms -9 dB) and the       *)
(* profile clamps; target sibilance includes values a few 1e-8 above the   *)
(* de-esser threshold.                                                      *)
(***************************************************************************)

TrackMetrics(rms, low, mid, high, sib, crest, clipping) ==
    [ rms_db |-> rms,
      low_band_energy |-> low,
      mid_band_energy |-> mid,
      high_band_energy |-> high,
      sibilance_ratio |-> sib,
      crest_factor_db |-> crest,
      is_clipping |-> clipping ]

TargetLoudness == { << -2400, FALSE >>, << -900, FALSE >>, << -400, TRUE >>, << -2400, TRUE >> }

TargetMetrics ==
    { TrackMetrics(l[1], low, 500, high, sib, crest, l[2]) :
        l \in TargetLoudness,
        low \in {60, 140, 600},
        high \in {60, 140, 400},
        sib \in {0, 10000001, 12000002, 35000000},
        crest \in {0, 600, 1400} }

ReferenceSpectra ==
    { << 510, 100, 0 >>, << 510, 100, 10000000 >>, << 300, 400, 20000000 >>, << 300, 10, 0 >> }

ReferenceMetrics ==
    { TrackMetrics(-1400, 100, sp[1], sp[2], sp[3], crest, FALSE) :
        sp \in ReferenceSpectra, crest \in {750, 800} }

StrategyArgs == {"None"} \cup PolicyIds

\* the variables of the convergence loop, in a run that does not execute it
LoopIdle ==
    /\ limiter_ceiling_db = 0
    /\ target_lufs = 0
    /\ audio = "none"
    /\ final_lufs = 0
    /\ correction_db = 0
    /\ limiter_calls = 0
    /\ gain_log = << >>
    /\ lufs_trace = << >>
    /\ hard_ceiling = FALSE

InitDecide ==
    /\ pc = "analyzed"
    /\ profile \in Profiles
    /\ analysis \in [target : TargetMetrics, reference : ReferenceMetrics]
    /\ strategy \in StrategyArgs
    /\ advanced_mode \in BOOLEAN
    /\ selection = "none"
    /\ decision = "none"
    /\ de_esser_mode = "off"
    /\ de_esser_stage = << >>
    /\ LoopIdle
    /\ EqIdle
    /\ AppIdle

\* decision = decide_mastering(analysis, profile, strategy, advanced_mode)
Decide ==
    /\ pc = "analyzed"
    /\ selection' = selected_strategy_of(analysis, strategy)
    /\ decision' = decide_mastering(analysis, profile, strategy, advanced_mode)
    /\ pc' = "decided"
    /\ UNCHANGED << profile, analysis, strategy, advanced_mode, de_esser_mode,
                    de_esser_stage, limiter_ceiling_db, target_lufs, audio, final_lufs,
                    correction_db, limiter_calls, gain_log, lufs_trace, hard_ceiling,
                    eq_vars, app_vars >>

\* plugins.extend(_build_optional_de_esser_stage(decision, de_esser_mode=de_esser_mode))
BuildDeEsserStage ==
    /\ pc = "decided"
    /\ \E mode \in DeEsserModes :
          /\ de_esser_mode' = mode
          /\ de_esser_stage' = build_optional_de_esser_stage(decision, mode)
    /\ pc' = "de_esser_built"
    /\ UNCHANGED << profile, analysis, strategy, advanced_mode, selection, decision,
                    limiter_ceiling_db, target_lufs, audio, final_lufs,
                    correction_db, limiter_calls, gain_log, lufs_trace, hard_ceiling,
                    eq_vars, app_vars >>

NextDecide ==
    \/ Decide
    \/ BuildDeEsserStage

SpecDecide == InitDecide /\ [][NextDecide]_vars

----------------------------------------------------------------------------
(* The Reference-Match EQ deriver of analysis.py.  Band deltas are in      *)
(* 1e-2 dB; the smoothing kernels are in twentieths, so smoothed deltas    *)
(* and the corrections are in 1/2000 dB.                                   *)
(***************************************************************************)

ANALYSIS_TUNINGS ==
    [ default |->
        [ eq_smoothing_kernel |-> << 5, 10, 5 >>,
          eq_max_abs_db |-> 8000,
          eq_min_correction_db |-> 1500 ],
      conservative |->
        [ eq_smoothing_kernel |-> << 4, 12, 4 >>,
          eq_max_abs_db |-> 6000,
          eq_min_correction_db |-> 2000 ],
      aggressive |->
        [ eq_smoothing_kernel |-> << 6, 8, 6 >>,
          eq_max_abs_db |-> 11000,
          eq_min_correction_db |-> 1000 ] ]

resolve_analysis_tuning(prof) == ANALYSIS_TUNINGS[prof]

\* the bands between the ten eq_band_edges_hz, and their centres
\* sqrt(low_hz * high_hz) in tenths of a hertz
EqBandCenters == << 346, 849, 1732, 3536, 7071, 14142, 28284, 56569, 113137 >>

\* np.convolve(deltas_db, smoothing_kernel, mode="same") at band i
smoothed_delta(deltas, kernel, i) ==
    LET at(j) == IF j < 1 \/ j > Len(deltas) THEN 0 ELSE deltas[j]
    IN  kernel[1] * at(i + 1) + kernel[2] * at(i) + kernel[3] * at(i - 1)

\* a bound that lets the smoothed delta through
bounded_delta_unclipped(smoothed, tuning) == smoothed

\* np.clip(smoothed, -tuning.eq_max_abs_db, tuning.eq_max_abs_db)
bounded_delta(smoothed, tuning) ==
    clamp(smoothed, -tuning.eq_max_abs_db, tuning.eq_max_abs_db)

RECURSIVE collect_corrections(_, _, _)
\* the loop over zip(target_centers, bounded), from band i on
collect_corrections(deltas, tuning, i) ==
    IF i > Len(deltas) THEN << >>
    ELSE LET delta_db == bounded_delta(
                             smoothed_delta(deltas, tuning.eq_smoothing_kernel, i), tuning)
         IN  (IF Abs(delta_db) < tuning.eq_min_correction_db THEN << >>
              ELSE << [ center_hz |-> EqBandCenters[i], delta_db |-> delta_db ] >>)
             \o collect_corrections(deltas, tuning, i + 1)

\* _derive_eq_band_corrections; deltas is << >> when either signal is empty
derive_eq_band_corrections(deltas, tuning) ==
    IF Len(deltas) = 0 THEN << >>
    ELSE collect_corrections(deltas, tuning, 1)

\* reference_db - target_db of one band: 12 dB too loud, matched, 1.5 dB too quiet
BandDeltas == {-1200, 0, 150}

InitEq ==
    /\ pc = "eq_pending"
    /\ profile \in Profiles
    /\ deltas_db \in [1..Len(EqBandCenters) -> BandDeltas] \cup { << >> }
    /\ eq_band_corrections = << >>
    /\ LoopIdle
    /\ DecideIdle
    /\ AppIdle

\* eq_band_corrections = _derive_eq_band_corrections(..., tuning=tuning)
DeriveEq ==
    /\ pc = "eq_pending"
    /\ eq_band_corrections' =
           derive_eq_band_corrections(deltas_db, resolve_analysis_tuning(profile))
    /\ pc' = "eq_derived"
    /\ UNCHANGED << profile, limiter_ceiling_db, target_lufs, audio, final_lufs,
                    correction_db, limiter_calls, gain_log, lufs_trace, hard_ceiling,
                    decide_vars, deltas_db, app_vars >>

NextEq == DeriveEq

SpecEq == InitEq /\ [][NextEq]_vars

----------------------------------------------------------------------------
(* Properties of the decision mapper, checked under SpecDecide.            *)
(***************************************************************************)

InRange(value, range) == range[1] <= value /\ value <= range[2]

Decided == pc \in {"decided", "de_esser_built"}

\* every profile-clamped field of d lies in the clamp range the profile declares
ProfileClampsHold(d, tuning) ==
    /\ InRange(d.gain_db, tuning.gain_clamp_db)
    /\ InRange(d.low_shelf_gain_db, tuning.shelf_clamp_db)
    /\ InRange(d.high_shelf_gain_db, tuning.shelf_clamp_db)
    /\ InRange(d.compressor_threshold_db, tuning.compressor_threshold_clamp_db)
    /\ InRange(d.compressor_ratio, tuning.compressor_ratio_clamp)
    /\ InRange(d.de_esser_threshold, tuning.de_esser_threshold_clamp)
    /\ InRange(d.de_esser_depth_db, tuning.de_esser_depth_clamp_db)

\* every advanced-mode field of d lies in its fixed clamp interval
AdvancedClampsHold(d) ==
    /\ InRange(d.multiband_low_threshold_db, << -32000, -16000 >>)
    /\ InRange(d.multiband_low_ratio, << 1200, 4000 >>)
    /\ InRange(d.multiband_mid_threshold_db, << -30000, -16000 >>)
    /\ InRange(d.multiband_mid_ratio, << 12000, 38000 >>)
    /\ InRange(d.multiband_high_threshold_db, << -640000000, -300000000 >>)
    /\ InRange(d.multiband_high_ratio, << 120000000, 420000000 >>)
    /\ InRange(d.dynamic_eq_harsh_threshold, << 40, 350 >>)
    /\ InRange(d.dynamic_eq_harsh_attenuation_db, << 0, 450000000 >>)
    /\ InRange(d.stereo_mid_gain_db, << -1000, 1000 >>)
    /\ InRange(d.stereo_side_gain_db, << -1500, 1500 >>)

\* C5 (as claimed): for every analysis, profile, strategy policy and both values
\* of advanced_mode, every field of the DecisionPayload lies within its clamp
\* range: the profile-clamped fields in the profile's ranges and each
\* advanced-mode field inside its fixed clamp interval.
C5_AllFieldsClamped ==
    Decided =>
        /\ ProfileClampsHold(decision, resolve_decision_tuning(profile))
        /\ AdvancedClampsHold(decision)

\* C5 (amended): the profile-clamped fields always lie in the profile's clamp
\* ranges; the advanced-mode fields lie in their fixed clamp intervals when
\* advanced_mode is on, and hold their fixed disabled defaults when it is off.
C5_FieldsClampedOrDefault ==
    Decided =>
        /\ ProfileClampsHold(decision, resolve_decision_tuning(profile))
        /\ advanced_mode => AdvancedClampsHold(decision)
        /\ ~advanced_mode =>
               \A f \in DOMAIN AdvancedDefaults : decision[f] = AdvancedDefaults[f]

\* advanced mode, a gain and a low-band ratio that the clamps have cut
C5_Witness ==
    /\ pc = "decided"
    /\ advanced_mode
    /\ rms_delta_db(analysis) > resolve_decision_tuning(profile).gain_clamp_db[2]
    /\ decision.gain_db = resolve_decision_tuning(profile).gain_clamp_db[2]
    /\ analysis.target.low_band_energy - analysis.reference.low_band_energy = 500
    /\ decision.multiband_low_ratio = 4000

StrategyConditions == {"bass_heavy", "harsh_upper_mids", "over_compressed", "clipping_prone"}

\* the claimed table, one row per combination of conditions
C7_PolicyTable ==
    [ S \in SUBSET StrategyConditions |->
        CASE S = {} -> "balanced"
          [] S = {"bass_heavy"} -> "bass_control"
          [] S = {"harsh_upper_mids"} -> "harsh_tame"
          [] S = {"over_compressed"} -> "dynamic_rescue"
          [] S = {"clipping_prone"} -> "clip_guard"
          [] S = {"bass_heavy", "harsh_upper_mids"} -> "harsh_tame"
          [] S = {"bass_heavy", "over_compressed"} -> "dynamic_rescue"
          [] S = {"bass_heavy", "clipping_prone"} -> "clip_guard"
          [] S = {"harsh_upper_mids", "over_compressed"} -> "dynamic_rescue"
          [] S = {"harsh_upper_mids", "clipping_prone"} -> "clip_guard"
          [] S = {"over_compressed", "clipping_prone"} -> "clip_guard"
          [] OTHER -> "corrective_combo" ]

SelectedConditions == { selection.conditions[i] : i \in 1..Len(selection.conditions) }

\* C7: select_decision_strategy maps the set of classified conditions to a
\* policy by the fixed table: corrective_combo for 3 or more conditions,
\* otherwise the policy of the highest-priority condition present
\* (clipping_prone > over_compressed > harsh_upper_mids > bass_heavy), and
\* balanced iff no condition holds.
C7_StrategyTable ==
    (Decided /\ strategy = "None") =>
        /\ SelectedConditions \subseteq StrategyConditions
        /\ selection.policy = DECISION_STRATEGY_POLICIES[C7_PolicyTable[SelectedConditions]]
        /\ selection.policy.strategy_id = "balanced" <=> SelectedConditions = {}

\* two conditions whose priorities decide: over_compressed and clipping_prone
C7_Witness ==
    /\ pc = "decided"
    /\ strategy = "None"
    /\ SelectedConditions = {"over_compressed", "clipping_prone"}
    /\ selection.policy.strategy_id = "clip_guard"

\* C8 (as claimed): a target with more low-band energy than the reference gets a
\* strictly negative low shelf, one with more high-band energy a strictly
\* negative high shelf; de_esser_depth_db is never negative, and a de-esser
\* stage present in the chain has strictly negative gain.
C8_DirectionalCorrectness ==
    /\ Decided =>
         /\ analysis.target.low_band_energy > analysis.reference.low_band_energy
                => decision.low_shelf_gain_db < 0
         /\ analysis.target.high_band_energy > analysis.reference.high_band_energy
                => decision.high_shelf_gain_db < 0
         /\ decision.de_esser_depth_db >= 0
    /\ pc = "de_esser_built" =>
         \A i \in 1..Len(de_esser_stage) : de_esser_stage[i].gain_db < 0

ClippingProne(a) == a.target.is_clipping \/ a.target.rms_db >= -900

\* C9: for an analysis whose target is clipping-prone, decide_mastering with the
\* auto-selected strategy returns a limiter ceiling strictly lower than with
\* the balanced policy on the same analysis and profile, and a de-esser depth
\* that is not smaller.
C9_ClipGuardLowersCeiling ==
    (Decided /\ strategy = "None" /\ ClippingProne(analysis)) =>
        LET baseline == decide_mastering(analysis, profile, "balanced", advanced_mode)
        IN  /\ decision.limiter_ceiling_db < baseline.limiter_ceiling_db
            /\ decision.de_esser_depth_db >= baseline.de_esser_depth_db

\* a clipping-prone target under the combo policy, de-essed deeper than balanced
C9_Witness ==
    /\ pc = "decided"
    /\ strategy = "None"
    /\ ClippingProne(analysis)
    /\ selection.policy.strategy_id = "corrective_combo"
    /\ decision.de_esser_depth_db
         > decide_mastering(analysis, profile, "balanced", advanced_mode).de_esser_depth_db
    /\ decision.limiter_ceiling_db
         = decide_mastering(analysis, profile, "balanced", advanced_mode).limiter_ceiling_db - 20

\* clamp((first - second) x shelf_scale x eq_intensity_scale, shelf_clamp) for the
\* run's profile and selected policy
ClaimedShelfGain(first, second) ==
    LET scaled == (first - second) * DECISION_TUNINGS[profile].shelf_scale
                  * selection.policy.eq_intensity_scale
        low    == DECISION_TUNINGS[profile].shelf_clamp_db[1]
        high   == DECISION_TUNINGS[profile].shelf_clamp_db[2]
    IN  IF scaled < low THEN low ELSE IF scaled > high THEN high ELSE scaled

\* C21 (as claimed): each shelf gain equals clamp((target band energy -
\* reference band energy) x shelf_scale x strategy.eq_intensity_scale,
\* shelf_clamp), computed independently for the low band and the high band.
C21_ShelfGainsTargetMinusReference ==
    Decided =>
        /\ decision.low_shelf_gain_db
             = ClaimedShelfGain(analysis.target.low_band_energy,
                                analysis.reference.low_band_energy)
        /\ decision.high_shelf_gain_db
             = ClaimedShelfGain(analysis.target.high_band_energy,
                                analysis.reference.high_band_energy)

\* C21 (amended): each shelf gain equals clamp((reference band energy - target
\* band energy) x shelf_scale x strategy.eq_intensity_scale, shelf_clamp),
\* computed independently for the low band and the high band.
C21_ShelfGainsReferenceMinusTarget ==
    Decided =>
        /\ decision.low_shelf_gain_db
             = ClaimedShelfGain(analysis.reference.low_band_energy,
                                analysis.target.low_band_energy)
        /\ decision.high_shelf_gain_db
             = ClaimedShelfGain(analysis.reference.high_band_energy,
                                analysis.target.high_band_energy)

\* a decision that cuts the low shelf to its clamp and lifts the high shelf by
\* an unclamped amount scaled by a policy's EQ intensity
C21_Witness ==
    /\ pc = "decided"
    /\ selection.policy.eq_intensity_scale # 100
    /\ decision.low_shelf_gain_db = DECISION_TUNINGS[profile].shelf_clamp_db[1]
    /\ decision.high_shelf_gain_db > 0
    /\ decision.high_shelf_gain_db < DECISION_TUNINGS[profile].shelf_clamp_db[2]

\* C25: with advanced_mode false, multiband_compression_enabled,
\* dynamic_eq_enabled and stereo_ms_correction_enabled are all false for every
\* analysis; with advanced_mode true each flag is true only if its magnitude
\* clears its minimum-effect threshold (multiband: low or high excess >= 0.04
\* or crest miss >= 1.5; dynamic EQ: harsh attenuation > 0; stereo M/S: |side
\* gain| or |mid gain| >= 0.1 dB), and is true whenever it does.
C25_EnableFlags ==
    Decided =>
        LET t == analysis.target
            r == analysis.reference
        IN  IF advanced_mode
            THEN /\ decision.multiband_compression_enabled
                      <=> \/ t.low_band_energy - r.low_band_energy >= 40
                          \/ t.high_band_energy - r.high_band_energy >= 40
                          \/ r.crest_factor_db - t.crest_factor_db >= 150
                 /\ decision.dynamic_eq_enabled
                      <=> decision.dynamic_eq_harsh_attenuation_db > 0
                 /\ decision.stereo_ms_correction_enabled
                      <=> \/ Abs(decision.stereo_side_gain_db) >= 100
                          \/ Abs(decision.stereo_mid_gain_db) >= 100
            ELSE /\ ~decision.multiband_compression_enabled
                 /\ ~decision.dynamic_eq_enabled
                 /\ ~decision.stereo_ms_correction_enabled

\* an advanced-mode decision whose multiband stage is enabled by the crest miss
\* alone, with the dynamic EQ left off and the stereo correction on
C25_Witness ==
    /\ pc = "decided"
    /\ advanced_mode
    /\ decision.multiband_compression_enabled
    /\ analysis.target.low_band_energy - analysis.reference.low_band_energy < 40
    /\ analysis.target.high_band_energy - analysis.reference.high_band_energy < 40
    /\ ~decision.dynamic_eq_enabled
    /\ decision.stereo_ms_correction_enabled
    /\ Abs(decision.stereo_mid_gain_db) < 100

----------------------------------------------------------------------------
(* Properties of the EQ deriver, checked under SpecEq.                     *)
(***************************************************************************)

\* C6: every EqBandCorrection emitted for a profile satisfies
\* eq_min_correction_db <= |delta_db| <= eq_max_abs_db of that profile.
C6_EqCorrectionsBounded ==
    pc = "eq_derived" =>
        \A i \in 1..Len(eq_band_corrections) :
            /\ Abs(eq_band_corrections[i].delta_db)
                   >= resolve_analysis_tuning(profile).eq_min_correction_db
            /\ Abs(eq_band_corrections[i].delta_db)
                   <= resolve_analysis_tuning(profile).eq_max_abs_db

\* one correction cut to the maximum, one exactly at the minimum, a band dropped
C6_Witness ==
    /\ pc = "eq_derived"
    /\ \E i \in 1..Len(eq_band_corrections) :
          eq_band_corrections[i].delta_db = -resolve_analysis_tuning(profile).eq_max_abs_db
    /\ \E i \in 1..Len(eq_band_corrections) :
          eq_band_corrections[i].delta_db = resolve_analysis_tuning(profile).eq_min_correction_db
    /\ Len(eq_band_corrections) < Len(deltas_db)

----------------------------------------------------------------------------
(* Profile-name lookups: resolve_mastering_profile, resolve_analysis_tuning *)
(* and resolve_decision_tuning, called directly, through analyze_tracks    *)
(* and decide_mastering, and through run_pipeline.                         *)
(***************************************************************************)

EqPresets == {"neutral", "warm", "bright", "vocal-presence", "bass-boost"}

EQ_PRESET_TO_PROFILE ==
    [ p \in EqPresets |->
        CASE p = "neutral" -> "default"
          [] p = "warm" -> "conservative"
          [] p = "bright" -> "aggressive"
          [] p = "vocal-presence" -> "default"
          [] p = "bass-boost" -> "aggressive" ]

MASTERING_PROFILE_ALIASES ==
    [ a \in { "reference-mastering-default", "reference-mastering-conservative",
              "reference-mastering-aggressive" } |->
        CASE a = "reference-mastering-default" -> "default"
          [] a = "reference-mastering-conservative" -> "conservative"
          [] a = "reference-mastering-aggressive" -> "aggressive" ]

\* mastering_profile.strip().lower()
strip_lower(n) == [ n EXCEPT !.upper = FALSE, !.pad = FALSE ]

\* "name in table": the exact string is a key of the table
is_key(n, keys) == n.given /\ ~n.upper /\ ~n.pad /\ n.text \in keys

Resolved(value) == [ exc |-> "none", value |-> value, allowed |-> {} ]

\* ValueError(f"Unknown ... '{name}'. Allowed: {', '.join(sorted(table))}.")
UnknownProfileError(keys) == [ exc |-> "ValueError", value |-> "none", allowed |-> keys ]

\* a resolver that falls back to the default profile for an unknown name
resolve_mastering_profile_fallback(eq_preset, mastering_profile) ==
    IF mastering_profile.given
    THEN LET normalized == strip_lower(mastering_profile)
         IN  IF is_key(normalized, DOMAIN MASTERING_PROFILE_ALIASES)
             THEN Resolved(MASTERING_PROFILE_ALIASES[normalized.text])
             ELSE IF is_key(normalized, DOMAIN LOUDNESS_TUNINGS)
             THEN Resolved(normalized.text)
             ELSE Resolved("default")
    ELSE Resolved(EQ_PRESET_TO_PROFILE[eq_preset])

resolve_mastering_profile(eq_preset, mastering_profile) ==
    IF mastering_profile.given
    THEN LET normalized == strip_lower(mastering_profile)
         IN  IF is_key(normalized, DOMAIN MASTERING_PROFILE_ALIASES)
             THEN Resolved(MASTERING_PROFILE_ALIASES[normalized.text])
             ELSE IF is_key(normalized, DOMAIN LOUDNESS_TUNINGS)
             THEN Resolved(normalized.text)
             ELSE UnknownProfileError(DOMAIN LOUDNESS_TUNINGS)
    ELSE Resolved(EQ_PRESET_TO_PROFILE[eq_preset])

\* resolve_analysis_tuning: ANALYSIS_TUNINGS[profile], KeyError turned into ValueError
try_resolve_analysis_tuning(n) ==
    IF is_key(n, DOMAIN ANALYSIS_TUNINGS) THEN Resolved(n.text)
    ELSE UnknownProfileError(DOMAIN ANALYSIS_TUNINGS)

\* resolve_decision_tuning: DECISION_TUNINGS[profile], KeyError turned into ValueError
try_resolve_decision_tuning(n) ==
    IF is_key(n, DOMAIN DECISION_TUNINGS) THEN Resolved(n.text)
    ELSE UnknownProfileError(DOMAIN DECISION_TUNINGS)

ProfileTexts ==
    Profiles \cup DOMAIN MASTERING_PROFILE_ALIASES
             \cup {"streaming-balanced", "streaming-loud", "studio"}

ProfileNames == { ProfileName(t, u, w) : t \in ProfileTexts, u \in BOOLEAN, w \in BOOLEAN }

\* a stage and the profile whose tunings it resolved
StageProfile(stage, profile_name) == [ stage |-> stage, profile |-> profile_name ]

LookupEntries == {"resolve_mastering_profile", "run_pipeline", "analyze_tracks", "decide_mastering"}

InitLookup ==
    /\ lk_entry \in LookupEntries
    /\ lk_preset \in EqPresets
    /\ lk_name \in IF lk_entry = "resolve_mastering_profile"
                   THEN ProfileNames \cup {NoName} ELSE ProfileNames
    /\ lk_pc = CASE lk_entry = "resolve_mastering_profile" -> "resolve"
                 [] lk_entry = "run_pipeline" -> "measure"
                 [] lk_entry = "analyze_tracks" -> "analyze_tracks"
                 [] lk_entry = "decide_mastering" -> "decide_mastering"
    /\ lk_profile = IF lk_entry \in {"analyze_tracks", "decide_mastering"}
                    THEN lk_name ELSE NoName
    /\ lk_error = NoError
    /\ lk_log = << >>
    /\ lk_used = << >>
    /\ pc = "idle"
    /\ profile = "default"
    /\ LoopIdle
    /\ DecideIdle
    /\ EqIdle
    /\ ServiceIdle
    /\ PersistIdle
    /\ BatchIdle
    /\ DspIdle

\* run_pipeline: target_lufs, reference_lufs = measure_integrated_lufs(...)
MeasureInputs ==
    /\ lk_pc = "measure"
    /\ lk_log' = Append(lk_log, "measure_integrated_lufs")
    /\ lk_pc' = "resolve"
    /\ UNCHANGED << lk_entry, lk_name, lk_preset, lk_profile, lk_error, lk_used,
                    other_than_lookup >>

\* resolve_mastering_profile(eq_preset, mastering_profile), called directly or
\* by run_pipeline with self.mastering_profile.profile_id
LookupMasteringProfile ==
    /\ lk_pc = "resolve"
    /\ LET r == resolve_mastering_profile(lk_preset, lk_name)
       IN  /\ lk_log' = Append(lk_log, "resolve_mastering_profile")
           /\ IF r.exc # "none"
              THEN /\ lk_error' = r
                   /\ lk_pc' = "raised"
                   /\ UNCHANGED lk_profile
              ELSE /\ lk_profile' = ProfileName(r.value, FALSE, FALSE)
                   /\ lk_pc' = IF lk_entry = "run_pipeline" THEN "analyze_tracks"
                               ELSE "returned"
                   /\ UNCHANGED lk_error
    /\ UNCHANGED << lk_entry, lk_name, lk_preset, lk_used, other_than_lookup >>

\* analyze_tracks: tuning = resolve_analysis_tuning(profile)
LookupAnalysisTuning ==
    /\ lk_pc = "analyze_tracks"
    /\ LET r == try_resolve_analysis_tuning(lk_profile)
       IN  /\ lk_log' = Append(lk_log, "resolve_analysis_tuning")
           /\ IF r.exc # "none"
              THEN lk_error' = r /\ lk_pc' = "raised"
              ELSE lk_pc' = "analysis" /\ UNCHANGED lk_error
    /\ UNCHANGED << lk_entry, lk_name, lk_preset, lk_profile, lk_used,
                    other_than_lookup >>

\* analyze_tracks: the metrics, EQ corrections and temporal descriptors
AnalysisStage ==
    /\ lk_pc = "analysis"
    /\ lk_log' = Append(lk_log, "analysis")
    /\ lk_used' = Append(lk_used, StageProfile("analysis", lk_profile.text))
    /\ lk_pc' = IF lk_entry = "run_pipeline" THEN "decide_mastering" ELSE "returned"
    /\ UNCHANGED << lk_entry, lk_name, lk_preset, lk_profile, lk_error,
                    other_than_lookup >>

\* decide_mastering: tuning = resolve_decision_tuning(profile)
LookupDecisionTuning ==
    /\ lk_pc = "decide_mastering"
    /\ LET r == try_resolve_decision_tuning(lk_profile)
       IN  /\ lk_log' = Append(lk_log, "resolve_decision_tuning")
           /\ IF r.exc # "none"
              THEN lk_error' = r /\ lk_pc' = "raised"
              ELSE lk_pc' = "decision" /\ UNCHANGED lk_error
    /\ UNCHANGED << lk_entry, lk_name, lk_preset, lk_profile, lk_used,
                    other_than_lookup >>

\* decide_mastering: the mapping from analysis to DecisionPayload
DecisionStage ==
    /\ lk_pc = "decision"
    /\ lk_log' = Append(lk_log, "decision")
    /\ lk_used' = Append(lk_used, StageProfile("decision", lk_profile.text))
    /\ lk_pc' = IF lk_entry = "run_pipeline" THEN "render" ELSE "returned"
    /\ UNCHANGED << lk_entry, lk_name, lk_preset, lk_profile, lk_error,
                    other_than_lookup >>

\* a render that is handed no profile name and falls back on the preset's
RenderStage_by_preset ==
    /\ lk_pc = "render"
    /\ LET r == resolve_mastering_profile(lk_preset, NoName)
       IN  /\ lk_log' = lk_log \o << "resolve_mastering_profile", "render" >>
           /\ lk_used' = Append(lk_used, StageProfile("loop", r.value))
           /\ lk_pc' = "returned"
    /\ UNCHANGED << lk_entry, lk_name, lk_preset, lk_profile, lk_error,
                    other_than_lookup >>

\* run_pipeline: apply_processing_with_loudness_target(..., eq_preset,
\* mastering_profile=mastering_profile_name), which resolves the name it is
\* handed again and takes the loudness and true-peak tunings of the result
RenderStage ==
    /\ lk_pc = "render"
    /\ LET r == resolve_mastering_profile(lk_preset, lk_profile)
       IN  IF r.exc # "none"
           THEN /\ lk_log' = Append(lk_log, "resolve_mastering_profile")
                /\ lk_error' = r
                /\ lk_pc' = "raised"
                /\ UNCHANGED lk_used
           ELSE /\ lk_log' = lk_log \o << "resolve_mastering_profile", "render" >>
                /\ lk_used' = Append(lk_used, StageProfile("loop", r.value))
                /\ lk_pc' = "returned"
                /\ UNCHANGED lk_error
    /\ UNCHANGED << lk_entry, lk_name, lk_preset, lk_profile, other_than_lookup >>

NextLookup ==
    \/ MeasureInputs
    \/ LookupMasteringProfile
    \/ LookupAnalysisTuning
    \/ AnalysisStage
    \/ LookupDecisionTuning
    \/ DecisionStage
    \/ RenderStage

SpecLookup == InitLookup /\ [][NextLookup]_vars

\* the name, stripped and lower-cased, is neither a profile nor an alias
UnknownName(n) == n.given /\ n.text \notin Profiles \cup DOMAIN MASTERING_PROFILE_ALIASES

LookupStages == {"analysis", "decision", "render"}

\* C11: looking up an unknown profile name fails fast: each of the three
\* resolvers raises a ValueError listing the allowed names when the name is
\* not a known profile (or alias); no analysis, decision or rendering step
\* runs after the failed lookup; the error reaches the caller.
C11_UnknownProfileFailsFast ==
    /\ (lk_log # << >> /\ lk_log[Len(lk_log)] = "resolve_mastering_profile"
            /\ UnknownName(lk_name))
         => (lk_pc = "raised" /\ lk_error = UnknownProfileError(Profiles))
    /\ (lk_log # << >> /\ lk_log[Len(lk_log)] \in {"resolve_analysis_tuning",
                                                  "resolve_decision_tuning"}
            /\ UnknownName(lk_profile))
         => (lk_pc = "raised" /\ lk_error = UnknownProfileError(Profiles))
    /\ lk_error # NoError =>
         /\ lk_pc = "raised"
         /\ lk_log[Len(lk_log)] \notin LookupStages
         /\ ~ENABLED NextLookup

\* run_pipeline with an unknown profile id: the lookup raised before any stage
C11_Witness ==
    /\ lk_entry = "run_pipeline"
    /\ lk_name = ProfileName("studio", TRUE, TRUE)
    /\ lk_pc = "raised"
    /\ lk_error = UnknownProfileError(Profiles)
    /\ lk_log = << "measure_integrated_lufs", "resolve_mastering_profile" >>

\* C19 (as claimed): with any preset, mastering_profile='streaming-balanced'
\* resolves to 'default' and 'streaming-loud' resolves to 'aggressive'; neither
\* is rejected as an unknown profile.
C19_StreamingAliases ==
    (lk_entry = "resolve_mastering_profile" /\ lk_pc \in {"returned", "raised"}
        /\ lk_name \in { ProfileName("streaming-balanced", FALSE, FALSE),
                         ProfileName("streaming-loud", FALSE, FALSE) })
      => /\ lk_error = NoError
         /\ lk_profile.text = IF lk_name.text = "streaming-balanced"
                              THEN "default" ELSE "aggressive"

\* the entries of the log, up to the first stage, that resolve a mastering profile
ResolutionsBeforeAnalysis ==
    { i \in 1..Len(lk_log) :
        /\ lk_log[i] = "resolve_mastering_profile"
        /\ \A j \in 1..i : lk_log[j] \notin LookupStages }

\* C30: in run_pipeline the tuning profile is resolved once from the
\* service's mastering_profile id (one resolution, before the analysis) and
\* that same profile name is used for analysis, decision and the convergence
\* loop; the eq_preset argument never changes which profile is used: the
\* stages use what the service's id resolves to under every preset.
C30_OneProfileForAllStages ==
    lk_entry = "run_pipeline" =>
        /\ \A i \in 1..Len(lk_used) : \A any_preset \in EqPresets :
              /\ resolve_mastering_profile(any_preset, lk_name).exc = "none"
              /\ lk_used[i].profile = resolve_mastering_profile(any_preset, lk_name).value
        /\ lk_used # << >> => Cardinality(ResolutionsBeforeAnalysis) = 1
        /\ lk_pc = "returned" =>
              /\ [ i \in 1..Len(lk_used) |-> lk_used[i].stage ]
                    = << "analysis", "decision", "loop" >>
              /\ lk_error = NoError

\* a service whose profile id is an alias, run with a preset that maps to
\* another profile: all three stages use the alias's profile
C30_Witness ==
    /\ lk_entry = "run_pipeline"
    /\ lk_pc = "returned"
    /\ lk_preset = "bright"
    /\ lk_name = ProfileName("reference-mastering-conservative", TRUE, TRUE)
    /\ lk_used = << StageProfile("analysis", "conservative"),
                    StageProfile("decision", "conservative"),
                    StageProfile("loop", "conservative") >>

----------------------------------------------------------------------------
(* MasterTrackAgainstReference.master_bytes with run_pipeline and          *)
(* master_to_path inlined: the events it publishes and how it ends.  The   *)
(* call's fault names the step that raises, if any.                        *)
(***************************************************************************)

\* correlation ids a caller passes ("None" and "" are falsy) and uuid4() values
CorrelationArgs == {"None", "", "corr-1", "corr-2"}

Uuids == {"uuid-1", "uuid-2"}

Faults == {"none", "validate", "decode", "measure", "resolve", "analyze", "decide",
           "render", "write", "read"}

\* the exception each failing step raises
FaultException ==
    [ f \in Faults \ {"none"} |->
        CASE f = "validate" -> "IngestValidationError"
          [] f = "resolve" -> "ValueError"
          [] f \in {"decode", "write", "read"} -> "OSError"
          [] OTHER -> "RuntimeError" ]

DomainEvent(type, correlation_id, stage) ==
    [ type |-> type, correlation_id |-> correlation_id, stage |-> stage ]

InitService ==
    /\ sv_pc = "call"
    /\ sv_input \in [ target_empty : BOOLEAN, reference_empty : BOOLEAN,
                      correlation_id : CorrelationArgs, fault : Faults ]
    /\ sv_cid = "none"
    /\ sv_events = << >>
    /\ sv_steps = << >>
    /\ sv_pending = "none"
    /\ sv_raised = "none"
    /\ sv_returned = FALSE
    /\ pc = "idle"
    /\ profile = "default"
    /\ LoopIdle
    /\ DecideIdle
    /\ EqIdle
    /\ LookupIdle
    /\ PersistIdle
    /\ BatchIdle
    /\ DspIdle

\* run_correlation_id = correlation_id or str(uuid4())
BeginMasterBytes ==
    /\ sv_pc = "call"
    /\ IF sv_input.correlation_id \in {"None", ""}
       THEN sv_cid' \in Uuids
       ELSE sv_cid' = sv_input.correlation_id
    /\ sv_pc' = "check_target"
    /\ UNCHANGED << sv_input, sv_events, sv_steps, sv_pending, sv_raised, sv_returned,
                    other_than_service >>

\* a check that raises without publishing the failure
CheckTarget_silent ==
    /\ sv_pc = "check_target"
    /\ IF sv_input.target_empty
       THEN /\ sv_raised' = "ValueError"
            /\ sv_pc' = "raised"
       ELSE /\ sv_pc' = "check_reference"
            /\ UNCHANGED sv_raised
    /\ UNCHANGED << sv_input, sv_cid, sv_events, sv_steps, sv_pending, sv_returned,
                    other_than_service >>

\* if not target_bytes: publish MasteringFailed(stage ingest); raise ValueError
CheckTarget ==
    /\ sv_pc = "check_target"
    /\ IF sv_input.target_empty
       THEN /\ sv_events' = Append(sv_events, DomainEvent("MasteringFailed", sv_cid, "ingest"))
            /\ sv_raised' = "ValueError"
            /\ sv_pc' = "raised"
       ELSE /\ sv_pc' = "check_reference"
            /\ UNCHANGED << sv_events, sv_raised >>
    /\ UNCHANGED << sv_input, sv_cid, sv_steps, sv_pending, sv_returned,
                    other_than_service >>

\* a check that reports the empty reference and carries on with the run
CheckReference_continue ==
    /\ sv_pc = "check_reference"
    /\ sv_events' = IF sv_input.reference_empty
                    THEN Append(sv_events, DomainEvent("MasteringFailed", sv_cid, "ingest"))
                    ELSE sv_events
    /\ sv_pc' = "validate"
    /\ UNCHANGED << sv_input, sv_cid, sv_steps, sv_pending, sv_raised, sv_returned,
                    other_than_service >>

\* if not reference_bytes: publish MasteringFailed(stage ingest); raise ValueError
CheckReference ==
    /\ sv_pc = "check_reference"
    /\ IF sv_input.reference_empty
       THEN /\ sv_events' = Append(sv_events, DomainEvent("MasteringFailed", sv_cid, "ingest"))
            /\ sv_raised' = "ValueError"
            /\ sv_pc' = "raised"
       ELSE /\ sv_pc' = "validate"
            /\ UNCHANGED << sv_events, sv_raised >>
    /\ UNCHANGED << sv_input, sv_cid, sv_steps, sv_pending, sv_returned,
                    other_than_service >>

\* a validation that reports its rejection as a MasteringFailed event
ValidateBytes_reported ==
    /\ sv_pc = "validate"
    /\ sv_steps' = Append(sv_steps, "validate")
    /\ IF sv_input.fault = "validate"
       THEN /\ sv_events' = Append(sv_events, DomainEvent("MasteringFailed", sv_cid, "ingest"))
            /\ sv_raised' = FaultException["validate"]
            /\ sv_pc' = "raised"
       ELSE /\ sv_events' = Append(sv_events, DomainEvent("IngestValidated", sv_cid, "none"))
            /\ sv_pc' = "decode"
            /\ UNCHANGED sv_raised
    /\ UNCHANGED << sv_input, sv_cid, sv_pending, sv_returned, other_than_service >>

\* validate_audio_bytes of both inputs, then publish IngestValidated
ValidateBytes ==
    /\ sv_pc = "validate"
    /\ sv_steps' = Append(sv_steps, "validate")
    /\ IF sv_input.fault = "validate"
       THEN /\ sv_raised' = FaultException["validate"]
            /\ sv_pc' = "raised"
            /\ UNCHANGED sv_events
       ELSE /\ sv_events' = Append(sv_events, DomainEvent("IngestValidated", sv_cid, "none"))
            /\ sv_pc' = "decode"
            /\ UNCHANGED sv_raised
    /\ UNCHANGED << sv_input, sv_cid, sv_pending, sv_returned, other_than_service >>

\* the temporary files, load_audio_file and normalize_audio, outside the try
DecodeAndNormalize ==
    /\ sv_pc = "decode"
    /\ sv_steps' = Append(sv_steps, "decode")
    /\ IF sv_input.fault = "decode"
       THEN /\ sv_raised' = FaultException["decode"]
            /\ sv_pc' = "raised"
       ELSE /\ sv_pc' = "measure"
            /\ UNCHANGED sv_raised
    /\ UNCHANGED << sv_input, sv_cid, sv_events, sv_pending, sv_returned,
                    other_than_service >>

\* a pipeline step inside the try: on a fault the except clause takes over
PipelineStep(at, step, faults, event, next) ==
    /\ sv_pc = at
    /\ sv_steps' = Append(sv_steps, step)
    /\ IF sv_input.fault \in faults
       THEN /\ sv_pending' = FaultException[sv_input.fault]
            /\ sv_pc' = "except"
            /\ UNCHANGED sv_events
       ELSE /\ sv_events' = IF event = "none" THEN sv_events
                            ELSE Append(sv_events, DomainEvent(event, sv_cid, "none"))
            /\ sv_pc' = next
            /\ UNCHANGED sv_pending
    /\ UNCHANGED << sv_input, sv_cid, sv_raised, sv_returned, other_than_service >>

\* run_pipeline: the two loudness measurements and resolve_mastering_profile
PipelineMeasure == PipelineStep("measure", "measure", {"measure", "resolve"}, "none", "analyze")

\* run_pipeline: analyze_tracks, then publish TrackAnalyzed
PipelineAnalyze == PipelineStep("analyze", "analyze", {"analyze"}, "TrackAnalyzed", "decide")

\* run_pipeline: decide_mastering, then publish MasteringDecided
PipelineDecide == PipelineStep("decide", "decide", {"decide"}, "MasteringDecided", "render")

\* run_pipeline: apply_processing_with_loudness_target, then publish MasteringRendered
PipelineRender == PipelineStep("render", "render", {"render"}, "MasteringRendered", "write")

\* a writer that does not announce the stored artifact
WriteArtifact_unannounced == PipelineStep("write", "write", {"write"}, "none", "read")

\* master_to_path: write_audio_file, then publish ArtifactStored
WriteArtifact == PipelineStep("write", "write", {"write"}, "ArtifactStored", "read")

\* return output_path.read_bytes()
ReadOutput ==
    /\ sv_pc = "read"
    /\ IF sv_input.fault = "read"
       THEN /\ sv_pending' = FaultException["read"]
            /\ sv_pc' = "except"
            /\ UNCHANGED sv_returned
       ELSE /\ sv_returned' = TRUE
            /\ sv_pc' = "returned"
            /\ UNCHANGED sv_pending
    /\ UNCHANGED << sv_input, sv_cid, sv_events, sv_steps, sv_raised, other_than_service >>

\* a handler that reports the failure and swallows the exception
HandlePipelineFailure_swallow ==
    /\ sv_pc = "except"
    /\ sv_events' = Append(sv_events, DomainEvent("MasteringFailed", sv_cid, "pipeline"))
    /\ sv_pc' = "returned"
    /\ UNCHANGED << sv_input, sv_cid, sv_steps, sv_pending, sv_raised, sv_returned,
                    other_than_service >>

\* except Exception as error: publish MasteringFailed(stage pipeline); raise
HandlePipelineFailure ==
    /\ sv_pc = "except"
    /\ sv_events' = Append(sv_events, DomainEvent("MasteringFailed", sv_cid, "pipeline"))
    /\ sv_raised' = sv_pending
    /\ sv_pc' = "raised"
    /\ UNCHANGED << sv_input, sv_cid, sv_steps, sv_pending, sv_returned,
                    other_than_service >>

NextService ==
    \/ BeginMasterBytes
    \/ CheckTarget
    \/ CheckReference
    \/ ValidateBytes
    \/ DecodeAndNormalize
    \/ PipelineMeasure
    \/ PipelineAnalyze
    \/ PipelineDecide
    \/ PipelineRender
    \/ WriteArtifact
    \/ ReadOutput
    \/ HandlePipelineFailure

SpecService == InitService /\ [][NextService]_vars

EventTypes == [ i \in 1..Len(sv_events) |-> sv_events[i].type ]

\* every published event carries the run's correlation id, which is the id
\* passed to the call when one was passed
EventsCarryCallId ==
    /\ \A i \in 1..Len(sv_events) : sv_events[i].correlation_id = sv_cid
    /\ sv_input.correlation_id \notin {"None", ""} => sv_cid = sv_input.correlation_id

\* C12: master_bytes called with empty target bytes or empty reference bytes
\* raises ValueError before any validation, decoding, analysis or rendering,
\* and publishes exactly one event, a MasteringFailed with the call's
\* correlation id.
C12_EmptyInputFailsFast ==
    (sv_pc # "call" /\ (sv_input.target_empty \/ sv_input.reference_empty)) =>
        /\ sv_steps = << >>
        /\ ~sv_returned
        /\ sv_pc \in {"check_target", "check_reference", "raised"}
        /\ sv_pc = "raised" =>
             /\ sv_raised = "ValueError"
             /\ EventTypes = << "MasteringFailed" >>
             /\ EventsCarryCallId

\* an empty reference, a caller's correlation id, the one failure event
C12_Witness ==
    /\ sv_pc = "raised"
    /\ ~sv_input.target_empty
    /\ sv_input.reference_empty
    /\ sv_input.correlation_id = "corr-1"
    /\ sv_events = << DomainEvent("MasteringFailed", "corr-1", "ingest") >>

\* C13: a successful master_bytes run publishes exactly IngestValidated,
\* TrackAnalyzed, MasteringDecided, MasteringRendered, ArtifactStored, in that
\* order, each once, each with the correlation id passed to the call.
C13_SuccessEventOrder ==
    sv_returned =>
        /\ EventTypes = << "IngestValidated", "TrackAnalyzed", "MasteringDecided",
                           "MasteringRendered", "ArtifactStored" >>
        /\ EventsCarryCallId
        /\ sv_raised = "none"

C13_Witness ==
    /\ sv_returned
    /\ sv_pc = "returned"
    /\ sv_input.correlation_id = "corr-2"
    /\ Len(sv_events) = 5
    /\ sv_events[5] = DomainEvent("ArtifactStored", "corr-2", "none")

\* C14: when rendering fails inside the pipeline of master_bytes, the events
\* are IngestValidated, TrackAnalyzed, MasteringDecided, then exactly one
\* MasteringFailed; the original exception is re-raised; neither
\* MasteringRendered nor ArtifactStored is published.
C14_RenderFailureEvents ==
    /\ (sv_input.fault = "render" /\ sv_pc \in {"raised", "returned"}
            /\ ~sv_input.target_empty /\ ~sv_input.reference_empty) =>
         /\ sv_pc = "raised"
         /\ EventTypes = << "IngestValidated", "TrackAnalyzed", "MasteringDecided",
                            "MasteringFailed" >>
         /\ sv_raised = FaultException["render"]
         /\ ~sv_returned
    /\ sv_input.fault = "render" =>
         \A i \in 1..Len(sv_events) :
             sv_events[i].type \notin {"MasteringRendered", "ArtifactStored"}

C14_Witness ==
    /\ sv_pc = "raised"
    /\ sv_input.fault = "render"
    /\ sv_steps = << "validate", "decode", "measure", "analyze", "decide", "render" >>
    /\ sv_raised = "RuntimeError"
    /\ Len(sv_events) = 4
    /\ sv_events[4] = DomainEvent("MasteringFailed", sv_cid, "pipeline")

\* C27: in any master_bytes run MasteringFailed is published at most once and,
\* when published, is the last event of the run: no IngestValidated,
\* TrackAnalyzed, MasteringDecided, MasteringRendered or ArtifactStored event
\* is ever published after it, whichever step failed.
C27_FailureIsLastEvent ==
    /\ [](\A i \in 1..Len(sv_events) :
            sv_events[i].type = "MasteringFailed" => i = Len(sv_events))
    /\ [][ (sv_events # << >> /\ sv_events[Len(sv_events)].type = "MasteringFailed")
              => sv_events' = sv_events ]_vars

\* a run whose artifact write fails after four events were published
C27_Witness ==
    /\ sv_pc = "raised"
    /\ sv_input.fault = "write"
    /\ EventTypes = << "IngestValidated", "TrackAnalyzed", "MasteringDecided",
                       "MasteringRendered", "MasteringFailed" >>
    /\ sv_raised = "OSError"

BothInputsNonEmpty == ~sv_input.target_empty /\ ~sv_input.reference_empty

RunEnded == sv_pc \in {"raised", "returned"}

\* C28: when both inputs of master_bytes are non-empty but
\* validate_audio_bytes rejects one of them, the IngestValidationError
\* propagates to the caller and the run publishes no event at all; likewise a
\* failure while decoding or normalizing the inputs happens after
\* IngestValidated and publishes no MasteringFailed.
C28_EarlyFailuresUnreported ==
    /\ (BothInputsNonEmpty /\ sv_input.fault = "validate") =>
          /\ sv_events = << >>
          /\ ~sv_returned
          /\ RunEnded => (sv_pc = "raised" /\ sv_raised = "IngestValidationError")
    /\ (BothInputsNonEmpty /\ sv_input.fault = "decode") =>
          /\ \A i \in 1..Len(sv_events) : sv_events[i].type # "MasteringFailed"
          /\ ~sv_returned
          /\ RunEnded =>
                /\ sv_pc = "raised"
                /\ sv_raised = FaultException["decode"]
                /\ EventTypes = << "IngestValidated" >>
                /\ sv_steps = << "validate", "decode" >>

\* a rejected input: the validation ran, the error reached the caller, no event
C28_Witness ==
    /\ BothInputsNonEmpty
    /\ sv_input.fault = "validate"
    /\ sv_pc = "raised"
    /\ sv_steps = << "validate" >>
    /\ sv_raised = "IngestValidationError"
    /\ sv_events = << >>

----------------------------------------------------------------------------
(* Artifact persistence: PersistMasteredArtifact.run, called directly with *)
(* any repository, and by the API's master handler after mastering.        *)
(***************************************************************************)

PersistenceModes == {"immediate", "deferred"}

PersistenceGuarantees == {"best-effort", "guaranteed"}

PersistedArtifact(status, object_url, destination) ==
    [ status |-> status, object_url |-> object_url, destination |-> destination ]

\* MinIOMasteredArtifactRepository.persist: stored with a URL, or skipped
MinIOResults ==
    { PersistedArtifact("stored", "https://minio/mastered.wav", "https://minio/mastered.wav"),
      PersistedArtifact("skipped", "None", "None") }

\* DeferredMasteredArtifactRepository.persist
DeferredResults ==
    { PersistedArtifact("deferred", "None", "queue://mastered-artifacts/mastered.wav") }

\* what a repository behind the port may return, a status outside the three included
AnyRepositoryResults ==
    MinIOResults \cup DeferredResults \cup { PersistedArtifact("failed", "None", "None") }

\* api._build_repository_for_mode
build_repository_for_mode(mode) ==
    IF mode = "deferred" THEN DeferredResults ELSE MinIOResults

\* a run that hands back whatever the repository returned
PersistMasteredArtifact_run_unchecked(result, policy) == "none"

\* PersistMasteredArtifact.run after repository.persist: the exception it raises
PersistMasteredArtifact_run(result, policy) ==
    IF policy.guarantee = "guaranteed"
    THEN IF policy.mode = "immediate" /\ result.status # "stored"
         THEN "ArtifactPersistenceError"
         ELSE IF policy.mode = "deferred" /\ result.status \notin {"deferred", "stored"}
         THEN "ArtifactPersistenceError"
         ELSE "none"
    ELSE "none"

\* what api.master_bytes hands back to the handler
MasteringOutcomes == {"bytes", "bytes_and_diagnostics", "ValueError", "TypeError"}

InitPersist ==
    /\ ps_call \in [ via : {"service", "api"},
                     policy : [ mode : PersistenceModes, guarantee : PersistenceGuarantees ],
                     mastering : MasteringOutcomes,
                     correlation_id : {"None", "corr-1"} ]
    /\ ps_call.via = "service" => (ps_call.mastering = "bytes" /\ ps_call.correlation_id = "None")
    /\ ps_pc = IF ps_call.via = "api" THEN "master" ELSE "persist"
    /\ ps_result = NoArtifact
    /\ ps_error = "none"
    /\ ps_response = NoResponse
    /\ ps_published = << >>
    /\ pc = "idle"
    /\ profile = "default"
    /\ LoopIdle
    /\ DecideIdle
    /\ EqIdle
    /\ LookupIdle
    /\ ServiceIdle
    /\ BatchIdle
    /\ DspIdle

\* api.master: mastered_payload = master_bytes(...); ValueError becomes HTTP 400,
\* any other exception leaves the handler
ApiMasterBytes ==
    /\ ps_pc = "master"
    /\ IF ps_call.mastering \in {"ValueError", "TypeError"}
       THEN /\ ps_response' =
                   IF ps_call.mastering = "ValueError"
                   THEN [ status_code |-> 400, code |-> "invalid_payload",
                          body |-> "none", persistence_status |-> "none" ]
                   ELSE [ status_code |-> 500, code |-> ps_call.mastering,
                          body |-> "none", persistence_status |-> "none" ]
            /\ ps_pc' = "responded"
       ELSE /\ ps_pc' = "persist"
            /\ UNCHANGED ps_response
    /\ UNCHANGED << ps_call, ps_result, ps_error, ps_published, other_than_persist >>

\* result = self.repository.persist(...), then the policy checks of run
RunPersistence ==
    /\ ps_pc = "persist"
    /\ \E result \in IF ps_call.via = "api"
                     THEN build_repository_for_mode(ps_call.policy.mode)
                     ELSE AnyRepositoryResults :
          /\ ps_result' = result
          /\ ps_error' = PersistMasteredArtifact_run(result, ps_call.policy)
    /\ ps_pc' = "ran"
    /\ UNCHANGED << ps_call, ps_response, ps_published, other_than_persist >>

\* a direct caller of run gets the repository's result or the exception
ServiceReturn ==
    /\ ps_pc = "ran"
    /\ ps_call.via = "service"
    /\ ps_response' = IF ps_error # "none"
                      THEN [ NoResponse EXCEPT !.code = ps_error ]
                      ELSE [ NoResponse EXCEPT !.code = "returned",
                                               !.persistence_status = ps_result.status ]
    /\ ps_pc' = "responded"
    /\ UNCHANGED << ps_call, ps_result, ps_error, ps_published, other_than_persist >>

\* api.master: ArtifactPersistenceError becomes HTTP 503; otherwise the headers,
\* the ArtifactStored event when there is a destination, and the response
ApiRespond ==
    /\ ps_pc = "ran"
    /\ ps_call.via = "api"
    /\ IF ps_error = "ArtifactPersistenceError"
       THEN /\ ps_response' = [ status_code |-> 503, code |-> "storage_unavailable",
                                body |-> "none", persistence_status |-> "none" ]
            /\ UNCHANGED ps_published
       ELSE /\ ps_response' = [ status_code |-> 200, code |-> "none",
                                body |-> "mastered_bytes",
                                persistence_status |-> ps_result.status ]
            /\ ps_published' =
                   IF ps_result.destination # "None"
                   THEN Append(ps_published,
                               DomainEvent("ArtifactStored", ps_call.correlation_id, "none"))
                   ELSE ps_published
    /\ ps_pc' = "responded"
    /\ UNCHANGED << ps_call, ps_result, ps_error, other_than_persist >>

NextPersist ==
    \/ ApiMasterBytes
    \/ RunPersistence
    \/ ServiceReturn
    \/ ApiRespond

SpecPersist == InitPersist /\ [][NextPersist]_vars

\* the repository status satisfies the policy's mode
StatusSatisfiesMode(status, mode) ==
    IF mode = "immediate" THEN status = "stored" ELSE status \in {"deferred", "stored"}

\* C15: PersistMasteredArtifact.run raises ArtifactPersistenceError exactly when
\* the guarantee is GUARANTEED and the repository status does not satisfy the
\* mode; under BEST_EFFORT it returns the repository's result for any status.
\* Through the API a raised ArtifactPersistenceError yields HTTP 503
\* 'storage_unavailable' instead of the bytes; a best-effort 'skipped' result
\* yields HTTP 200 with the bytes.
C15_PersistencePolicy ==
    /\ ps_pc \in {"ran", "responded"} /\ ps_result # NoArtifact =>
         /\ ps_error = "ArtifactPersistenceError"
              <=> /\ ps_call.policy.guarantee = "guaranteed"
                  /\ ~StatusSatisfiesMode(ps_result.status, ps_call.policy.mode)
         /\ ps_error \in {"none", "ArtifactPersistenceError"}
    /\ (ps_pc = "responded" /\ ps_call.via = "service"
            /\ ps_call.policy.guarantee = "best-effort") =>
         /\ ps_response.code = "returned"
         /\ ps_response.persistence_status = ps_result.status
    /\ (ps_pc = "responded" /\ ps_call.via = "api" /\ ps_error = "ArtifactPersistenceError") =>
         /\ ps_response.status_code = 503
         /\ ps_response.code = "storage_unavailable"
         /\ ps_response.body = "none"
    /\ (ps_pc = "responded" /\ ps_call.via = "api" /\ ps_result.status = "skipped"
            /\ ps_call.policy.guarantee = "best-effort") =>
         /\ ps_response.status_code = 200
         /\ ps_response.body = "mastered_bytes"

\* the API under a guaranteed immediate policy with storage skipped: 503
C15_Witness ==
    /\ ps_pc = "responded"
    /\ ps_call.via = "api"
    /\ ps_call.policy = [ mode |-> "immediate", guarantee |-> "guaranteed" ]
    /\ ps_result.status = "skipped"
    /\ ps_response.status_code = 503

----------------------------------------------------------------------------
(* run_batch_mastering: one future per row on a ThreadPoolExecutor of      *)
(* max(1, concurrency_limit) workers, collected with as_completed, sorted  *)
(* by index and summarised.                                                *)
(***************************************************************************)

\* rows per batch
MaxRows == 3

\* a row's 'target' entry: a path, a blank string, no entry, or a null (a JSON
\* null, or a CSV row shorter than its header); for a path, how mastering ends
BatchRows ==
    { [ target |-> "song.wav", mastering |-> "ok" ],
      [ target |-> "song.wav", mastering |-> "raises" ],
      [ target |-> " ", mastering |-> "ok" ],
      [ target |-> "missing", mastering |-> "ok" ],
      [ target |-> "null", mastering |-> "ok" ] }

\* str(item_index) and int(item["index"])
IndexStrings == << "1", "2", "3", "4", "5" >>

str_of_index(i) == IndexStrings[i]

int_of_index(text) == CHOOSE i \in 1..Len(IndexStrings) : IndexStrings[i] = text

ItemResult(index, target, status, error, correlation_id) ==
    [ index |-> str_of_index(index), target |-> target, status |-> status,
      error |-> error, correlation_id |-> correlation_id ]

NoItemResult == [ index |-> "", target |-> "", status |-> "none", error |-> "",
                  correlation_id |-> "" ]

Future(state, exception, result) == [ state |-> state, exception |-> exception, result |-> result ]

\* _process(item, item_index): the exception it lets out and the dict it returns
process_item(item, item_index, correlation_id) ==
    IF item.target = "null"
    THEN Future("done", "AttributeError", NoItemResult)
    ELSE IF item.target \in {"missing", " "}
    THEN Future("done", "none",
                ItemResult(item_index, "", "failed",
                           "Manifest item is missing required 'target' value.",
                           correlation_id))
    ELSE IF item.mastering = "ok"
    THEN Future("done", "none",
                ItemResult(item_index, item.target, "succeeded", "", correlation_id))
    ELSE Future("done", "none",
                ItemResult(item_index, item.target, "failed", "boom", correlation_id))

\* max(1, concurrency_limit)
safe_concurrency(limit) == Max(1, limit)

RECURSIVE insert_by_index(_, _)
insert_by_index(sorted, item) ==
    IF sorted = << >> THEN << item >>
    ELSE IF int_of_index(item.index) < int_of_index(Head(sorted).index)
    THEN << item >> \o sorted
    ELSE << Head(sorted) >> \o insert_by_index(Tail(sorted), item)

RECURSIVE sort_by_index(_)
\* results.sort(key=lambda item: int(item["index"]))
sort_by_index(items) ==
    IF items = << >> THEN << >>
    ELSE insert_by_index(sort_by_index(Tail(items)), Head(items))

\* the summary dict
summarize(items) ==
    LET success_count == Cardinality({ i \in 1..Len(items) : items[i].status = "succeeded" })
    IN  [ total |-> Len(items), succeeded |-> success_count,
          failed |-> Len(items) - success_count ]

Running == { i \in 1..Len(bt_futures) : bt_futures[i].state = "running" }

Queued == { i \in 1..Len(bt_futures) : bt_futures[i].state = "queued" }

Collected == { int_of_index(bt_results[k].index) : k \in 1..Len(bt_results) }

InitBatch ==
    /\ bt_pc = "collecting"
    /\ bt_rows \in UNION { [1..n -> BatchRows] : n \in 1..MaxRows }
    /\ bt_limit \in {0, 1, 2}
    /\ bt_futures = [ i \in 1..Len(bt_rows) |-> Future("queued", "none", NoItemResult) ]
    /\ bt_results = << >>
    /\ bt_summary = NoSummary
    /\ bt_raised = "none"
    /\ pc = "idle"
    /\ profile = "default"
    /\ LoopIdle
    /\ DecideIdle
    /\ EqIdle
    /\ LookupIdle
    /\ ServiceIdle
    /\ PersistIdle
    /\ DspIdle

\* a free worker takes the oldest queued call
StartItem ==
    /\ bt_pc \in {"collecting", "unwinding"}
    /\ Queued # {}
    /\ Cardinality(Running) < safe_concurrency(bt_limit)
    /\ LET i == CHOOSE q \in Queued : \A o \in Queued : q <= o
       IN  bt_futures' = [ bt_futures EXCEPT ![i].state = "running" ]
    /\ UNCHANGED << bt_pc, bt_rows, bt_limit, bt_results, bt_summary, bt_raised,
                    other_than_batch >>

\* a worker that runs the last row whatever it was given
FinishItem_last_row ==
    /\ \E i \in Running, cid \in Uuids :
          bt_futures' = [ bt_futures EXCEPT
                            ![i] = process_item(bt_rows[Len(bt_rows)], Len(bt_rows), cid) ]
    /\ UNCHANGED << bt_pc, bt_rows, bt_limit, bt_results, bt_summary, bt_raised,
                    other_than_batch >>

\* a worker finishes _process(row, idx) and sets its future
FinishItem ==
    /\ \E i \in Running, cid \in Uuids :
          bt_futures' = [ bt_futures EXCEPT ![i] = process_item(bt_rows[i], i, cid) ]
    /\ UNCHANGED << bt_pc, bt_rows, bt_limit, bt_results, bt_summary, bt_raised,
                    other_than_batch >>

\* for future in as_completed(futures): results.append(future.result())
CollectResult ==
    /\ bt_pc = "collecting"
    /\ \E i \in 1..Len(bt_futures) :
          /\ bt_futures[i].state = "done"
          /\ bt_futures[i].exception = "none" => i \notin Collected
          /\ bt_raised = "none"
          /\ IF bt_futures[i].exception # "none"
             THEN /\ bt_raised' = bt_futures[i].exception
                  /\ bt_pc' = "unwinding"
                  /\ UNCHANGED bt_results
             ELSE /\ bt_results' = Append(bt_results, bt_futures[i].result)
                  /\ UNCHANGED << bt_pc, bt_raised >>
    /\ UNCHANGED << bt_rows, bt_limit, bt_futures, bt_summary, other_than_batch >>

\* future.result() raised: the executor's with block waits for every worker,
\* then the exception leaves run_batch_mastering
PropagateWorkerError ==
    /\ bt_pc = "unwinding"
    /\ \A i \in 1..Len(bt_futures) : bt_futures[i].state = "done"
    /\ bt_pc' = "raised"
    /\ UNCHANGED << bt_rows, bt_limit, bt_futures, bt_results, bt_summary, bt_raised,
                    other_than_batch >>

\* results.sort(...), the summary, return results, summary
SortAndSummarize ==
    /\ bt_pc = "collecting"
    /\ Len(bt_results) = Len(bt_futures)
    /\ bt_results' = sort_by_index(bt_results)
    /\ bt_summary' = summarize(bt_results)
    /\ bt_pc' = "returned"
    /\ UNCHANGED << bt_rows, bt_limit, bt_futures, bt_raised, other_than_batch >>

NextBatch ==
    \/ StartItem
    \/ FinishItem
    \/ CollectResult
    \/ PropagateWorkerError
    \/ SortAndSummarize

SpecBatch == InitBatch /\ [][NextBatch]_vars

\* C16 (as claimed): run_batch_mastering returns exactly one result per input
\* row, sorted by ascending input index whatever order the workers finish in,
\* with total = number of rows and succeeded + failed = total; an item whose
\* mastering raises is reported as failed with its error message and does not
\* stop or fail any other item.
C16_BatchResults ==
    /\ bt_pc # "raised"
    /\ bt_pc = "returned" =>
         /\ Len(bt_results) = Len(bt_rows)
         /\ \A k \in 1..Len(bt_results) : int_of_index(bt_results[k].index) = k
         /\ bt_summary.total = Len(bt_rows)
         /\ bt_summary.succeeded + bt_summary.failed = bt_summary.total
         /\ \A k \in 1..Len(bt_rows) :
               /\ (bt_rows[k].target = "song.wav" /\ bt_rows[k].mastering = "raises")
                    => (bt_results[k].status = "failed" /\ bt_results[k].error = "boom")
               /\ (bt_rows[k].target = "song.wav" /\ bt_rows[k].mastering = "ok")
                    => bt_results[k].status = "succeeded"

\* what a row yields when it is the only request: outcome, status and error
SoloOutcome(row) ==
    CASE row.target = "null" -> << "AttributeError", "none", "" >>
      [] row.target \in {"missing", " "} ->
            << "none", "failed", "Manifest item is missing required 'target' value." >>
      [] row.target = "song.wav" /\ row.mastering = "ok" -> << "none", "succeeded", "" >>
      [] OTHER -> << "none", "failed", "boom" >>

----------------------------------------------------------------------------
(* The DSP chain: processing.apply_processing and build_dsp_chain.  Plugin *)
(* gains that the code rounds to 6 decimals, the preset offsets and the    *)
(* band corrections are in 1e-8 dB; cutoffs and band centres in Hz.        *)
(***************************************************************************)

\* corrections per build_dsp_chain call
MaxCorrections == 2

EqPresetTuning(low_shelf_offset_db, high_shelf_offset_db, low_band_bias_db, mid_band_bias_db, high_band_bias_db) ==
    [ low_shelf_offset_db |-> low_shelf_offset_db,
      high_shelf_offset_db |-> high_shelf_offset_db,
      low_band_bias_db |-> low_band_bias_db,
      mid_band_bias_db |-> mid_band_bias_db,
      high_band_bias_db |-> high_band_bias_db ]

EQ_PRESET_TUNINGS ==
    [ p \in EqPresets |->
        CASE p = "neutral" -> EqPresetTuning(0, 0, 0, 0, 0)
          [] p = "warm" -> EqPresetTuning(150000000, -80000000, 50000000, 0, 0)
          [] p = "bright" -> EqPresetTuning(-80000000, 180000000, 0, 0, 40000000)
          [] p = "vocal-presence" ->
                EqPresetTuning(-60000000, 120000000, 0, 80000000, 20000000)
          [] p = "bass-boost" -> EqPresetTuning(200000000, -50000000, 80000000, 0, 0) ]

EqModes == {"fixed", "reference-match"}

HighpassFilter(cutoff_frequency_hz) ==
    [ plugin |-> "HighpassFilter", cutoff_frequency_hz |-> cutoff_frequency_hz ]

LowShelfFilter(cutoff_frequency_hz, gain_db) ==
    [ plugin |-> "LowShelfFilter", cutoff_frequency_hz |-> cutoff_frequency_hz,
      gain_db |-> gain_db ]

HighShelfFilter(cutoff_frequency_hz, gain_db) ==
    [ plugin |-> "HighShelfFilter", cutoff_frequency_hz |-> cutoff_frequency_hz,
      gain_db |-> gain_db ]

Compressor(threshold_db, ratio, attack_ms, release_ms) ==
    [ plugin |-> "Compressor", threshold_db |-> threshold_db, ratio |-> ratio,
      attack_ms |-> attack_ms, release_ms |-> release_ms ]

\* pedalboard.Gain(gain_db=...) as a stage of the chain
GainPlugin(gain_db) == [ plugin |-> "Gain", gain_db |-> gain_db ]

\* pedalboard.Limiter(threshold_db=..., release_ms=...) as a stage of the chain
LimiterPlugin(threshold_db, release_ms) ==
    [ plugin |-> "Limiter", threshold_db |-> threshold_db, release_ms |-> release_ms ]

EqBandCorrection(center_hz, delta_db) == [ center_hz |-> center_hz, delta_db |-> delta_db ]

\* _band_bias_for_frequency
band_bias_for_frequency(center_hz, tuning) ==
    IF center_hz <= 250 THEN tuning.low_band_bias_db
    ELSE IF center_hz >= 4000 THEN tuning.high_band_bias_db
    ELSE tuning.mid_band_bias_db

\* round(x * 0.5, 6) of a value in units of 1e-8: to the nearest 1e-6, ties to even
round_6_half(x) ==
    LET m  == Abs(x)
        q  == m \div 200
        r  == m % 200
        up == r > 100 \/ (r = 100 /\ q % 2 = 1)
        v  == (IF up THEN q + 1 ELSE q) * 100
    IN  IF x < 0 THEN -v ELSE v

\* a builder that answers every correction with a low-shelf/high-shelf pair
reference_match_stages_of_always_pair(correction, tuning) ==
    LET center_hz == correction.center_hz
        gain_db   == correction.delta_db + band_bias_for_frequency(center_hz, tuning)
    IN  << LowShelfFilter(Max(100, (center_hz * 10) \div 16), round_6_half(gain_db)),
           HighShelfFilter(Min(10000, (center_hz * 16) \div 10), round_6_half(-gain_db)) >>

\* the stages _build_reference_match_eq_stage appends for one correction
reference_match_stages_of(correction, tuning) ==
    LET center_hz == correction.center_hz
        gain_db   == correction.delta_db + band_bias_for_frequency(center_hz, tuning)
    IN  IF center_hz <= 250
        THEN << LowShelfFilter(Max(40, center_hz), round_6(gain_db)) >>
        ELSE IF center_hz >= 4000
        THEN << HighShelfFilter(Min(12000, center_hz), round_6(gain_db)) >>
        ELSE << LowShelfFilter(Max(100, (center_hz * 10) \div 16), round_6_half(gain_db)),
                HighShelfFilter(Min(10000, (center_hz * 16) \div 10),
                                round_6_half(-gain_db)) >>

RECURSIVE build_reference_match_eq_stage(_, _)
\* _build_reference_match_eq_stage(eq_band_corrections, tuning)
build_reference_match_eq_stage(eq_band_corrections_arg, tuning) ==
    IF eq_band_corrections_arg = << >> THEN << >>
    ELSE reference_match_stages_of(Head(eq_band_corrections_arg), tuning)
         \o build_reference_match_eq_stage(Tail(eq_band_corrections_arg), tuning)

\* _build_optional_dynamic_eq_stage(decision, advanced_mode)
build_optional_dynamic_eq_stage(d, advanced) ==
    IF ~advanced \/ ~d.dynamic_eq_enabled THEN << >>
    ELSE IF d.dynamic_eq_harsh_attenuation_db <= 0 THEN << >>
    ELSE << HighShelfFilter(3500, round_6(-d.dynamic_eq_harsh_attenuation_db)) >>

\* a builder that puts the de-esser in front of the static gain
build_pre_limiter_plugins_de_esser_first(d, tuning, eq_mode, eq_band_corrections_arg, mode, gain_db, advanced) ==
    << HighpassFilter(30),
       LowShelfFilter(125, round_6(d.low_shelf_gain_db * 1000 + tuning.low_shelf_offset_db)),
       HighShelfFilter(6000, round_6(d.high_shelf_gain_db * 1000
                                     + tuning.high_shelf_offset_db)) >>
    \o (IF eq_mode = "reference-match"
        THEN build_reference_match_eq_stage(eq_band_corrections_arg, tuning) ELSE << >>)
    \o build_optional_dynamic_eq_stage(d, advanced)
    \o (IF ~(advanced /\ d.multiband_compression_enabled)
        THEN << Compressor(d.compressor_threshold_db, d.compressor_ratio, 15, 120) >>
        ELSE << >>)
    \o build_optional_de_esser_stage(d, mode)
    \o << GainPlugin(gain_db) >>

\* _build_pre_limiter_plugins
build_pre_limiter_plugins(d, tuning, eq_mode, eq_band_corrections_arg, mode, gain_db, advanced) ==
    << HighpassFilter(30),
       LowShelfFilter(125, round_6(d.low_shelf_gain_db * 1000 + tuning.low_shelf_offset_db)),
       HighShelfFilter(6000, round_6(d.high_shelf_gain_db * 1000
                                     + tuning.high_shelf_offset_db)) >>
    \o (IF eq_mode = "reference-match"
        THEN build_reference_match_eq_stage(eq_band_corrections_arg, tuning) ELSE << >>)
    \o build_optional_dynamic_eq_stage(d, advanced)
    \o (IF ~(advanced /\ d.multiband_compression_enabled)
        THEN << Compressor(d.compressor_threshold_db, d.compressor_ratio, 15, 120) >>
        ELSE << >>)
    \o << GainPlugin(gain_db) >>
    \o build_optional_de_esser_stage(d, mode)

\* build_dsp_chain(decision, eq_mode, eq_preset, eq_band_corrections, de_esser_mode,
\* advanced_mode)
build_dsp_chain(d, eq_mode, eq_preset, eq_band_corrections_arg, mode, advanced) ==
    build_pre_limiter_plugins(d, EQ_PRESET_TUNINGS[eq_preset], eq_mode,
                              eq_band_corrections_arg, mode, d.gain_db, advanced)
    \o << LimiterPlugin(d.limiter_ceiling_db, 150) >>

\* _apply_optional_ms_gain_correction: what the returned buffer has been through
apply_optional_ms_gain_correction(applied, channels, d, advanced) ==
    IF ~advanced \/ ~d.stereo_ms_correction_enabled THEN applied
    ELSE IF channels < 2 THEN applied
    ELSE Append(applied, "ms_gain_correction")

\* multiband compression that goes by the decision's flag alone
apply_optional_multiband_compression_by_flag(applied, d, advanced) ==
    IF ~d.multiband_compression_enabled THEN applied
    ELSE Append(applied, "multiband_compression")

\* _apply_optional_multiband_compression: what the returned buffer has been through
apply_optional_multiband_compression(applied, d, advanced) ==
    IF ~advanced \/ ~d.multiband_compression_enabled THEN applied
    ELSE Append(applied, "multiband_compression")

\* analyses whose decisions switch each optional stage on and off, with
\* de-esser depths of zero, of a few 1e-8 dB and of several dB
ChainAnalyses ==
    [ target : { TrackMetrics(-2400, 60, 500, 60, sib, crest, FALSE) :
                    sib \in {0, 10000001, 35000000}, crest \in {0, 1400} },
      reference : { TrackMetrics(-1400, 100, 510, 100, sib, 750, FALSE) :
                       sib \in {0, 10000000} } ]

ChainDecisions ==
    { decide_mastering(a, "default", "None", advanced) :
        a \in ChainAnalyses, advanced \in BOOLEAN }

ChainBandCorrections ==
    { EqBandCorrection(100, 150000000), EqBandCorrection(1000, -300000049),
      EqBandCorrection(1000, 150000000), EqBandCorrection(8000, 150000000) }

ChainCorrections == UNION { [1..n -> ChainBandCorrections] : n \in 0..MaxCorrections }

InitChain ==
    /\ ch_pc = "start"
    /\ ch_decision \in ChainDecisions
    /\ ch_args \in [ eq_mode : EqModes,
                     eq_preset : EqPresets,
                     eq_band_corrections : ChainCorrections,
                     de_esser_mode : DeEsserModes,
                     advanced_mode : BOOLEAN,
                     channels : {1, 2} ]
    /\ ch_applied = << >>
    /\ ch_plugins = << >>
    /\ pc = "idle"
    /\ profile = "default"
    /\ LoopIdle
    /\ DecideIdle
    /\ EqIdle
    /\ LookupIdle
    /\ ServiceIdle
    /\ PersistIdle
    /\ BatchIdle
    /\ FrameIdle

\* staged_audio = _apply_optional_ms_gain_correction(target_audio, ...)
ApplyMsGainCorrection ==
    /\ ch_pc = "start"
    /\ ch_applied' = apply_optional_ms_gain_correction(ch_applied, ch_args.channels,
                                                       ch_decision, ch_args.advanced_mode)
    /\ ch_pc' = "ms_done"
    /\ UNCHANGED << ch_decision, ch_args, ch_plugins, other_than_chain >>

\* staged_audio = _apply_optional_multiband_compression(staged_audio, ...)
ApplyMultibandCompression ==
    /\ ch_pc = "ms_done"
    /\ ch_applied' = apply_optional_multiband_compression(ch_applied, ch_decision,
                                                          ch_args.advanced_mode)
    /\ ch_pc' = "multiband_done"
    /\ UNCHANGED << ch_decision, ch_args, ch_plugins, other_than_chain >>

\* board = build_dsp_chain(decision, ...)
BuildDspChain ==
    /\ ch_pc = "multiband_done"
    /\ ch_plugins' = build_dsp_chain(ch_decision, ch_args.eq_mode, ch_args.eq_preset,
                                     ch_args.eq_band_corrections, ch_args.de_esser_mode,
                                     ch_args.advanced_mode)
    /\ ch_pc' = "built"
    /\ UNCHANGED << ch_decision, ch_args, ch_applied, other_than_chain >>

\* return board(staged_audio, sample_rate)
RunBoard ==
    /\ ch_pc = "built"
    /\ ch_applied' = Append(ch_applied, "board")
    /\ ch_pc' = "rendered"
    /\ UNCHANGED << ch_decision, ch_args, ch_plugins, other_than_chain >>

NextChain ==
    \/ ApplyMsGainCorrection
    \/ ApplyMultibandCompression
    \/ BuildDspChain
    \/ RunBoard

SpecChain == InitChain /\ [][NextChain]_vars

----------------------------------------------------------------------------
(* Properties of the DSP chain, checked under SpecChain.                   *)
(***************************************************************************)

ChainBuilt == ch_pc \in {"built", "rendered"}

DeEsserExpected == ch_args.de_esser_mode = "auto" /\ ch_decision.de_esser_depth_db > 0

MultibandSelected == ch_args.advanced_mode /\ ch_decision.multiband_compression_enabled

IsShelf(stage) == stage.plugin \in {"LowShelfFilter", "HighShelfFilter"}

IsStage(stage, plugin, cutoff_frequency_hz) ==
    /\ stage.plugin = plugin
    /\ stage.cutoff_frequency_hz = cutoff_frequency_hz

CountOf(plugin) == Cardinality({ i \in 1..Len(ch_plugins) : ch_plugins[i].plugin = plugin })

\* index of the static gain, counted back from the limiter and the de-esser
GainIndex == Len(ch_plugins) - 1 - (IF DeEsserExpected THEN 1 ELSE 0)

\* index of the first stage after the EQ stages: the compressor, else the gain
DynamicsIndex ==
    IF ch_plugins[GainIndex - 1].plugin = "Compressor" THEN GainIndex - 1 ELSE GainIndex

\* the dynamic-EQ stage is the high shelf at 3.5 kHz
HasDynamicEq == \E i \in 4..(DynamicsIndex - 1) : IsStage(ch_plugins[i], "HighShelfFilter", 3500)

\* highpass, low shelf, high shelf, [EQ stages], [dynamic EQ], [compressor],
\* gain, [de-esser], limiter
ChainInOrder ==
    LET n == Len(ch_plugins)
    IN  /\ n >= 5
        /\ IsStage(ch_plugins[1], "HighpassFilter", 30)
        /\ IsStage(ch_plugins[2], "LowShelfFilter", 125)
        /\ IsStage(ch_plugins[3], "HighShelfFilter", 6000)
        /\ ch_plugins[n].plugin = "Limiter"
        /\ CountOf("Limiter") = 1
        /\ GainIndex >= 4
        /\ ch_plugins[GainIndex].plugin = "Gain"
        /\ CountOf("Gain") = 1
        /\ CountOf("Compressor") <= 1
        /\ CountOf("Compressor") = 1 => DynamicsIndex = GainIndex - 1
        /\ \A i \in 4..(DynamicsIndex - 1) : IsShelf(ch_plugins[i])
        /\ \A i \in 4..(DynamicsIndex - 1) :
              IsStage(ch_plugins[i], "HighShelfFilter", 3500) => i = DynamicsIndex - 1
        /\ IF DeEsserExpected
           THEN IsStage(ch_plugins[n - 1], "HighShelfFilter", 6500)
           ELSE ch_plugins[n - 1].plugin = "Gain"

\* C22 (as claimed): build_dsp_chain yields its stages in the fixed order
\* highpass, low shelf, high shelf, [reference-match EQ stages], [dynamic-EQ
\* stage], [single-band compressor], static gain, [de-esser], limiter: exactly
\* one limiter and it is last, and the de-esser stage is present iff
\* de_esser_mode is AUTO and de_esser_depth_db > 0, in which case it is
\* immediately before the limiter with gain -de_esser_depth_db.
C22_ChainOrderExactGain ==
    ChainBuilt =>
        /\ ChainInOrder
        /\ DeEsserExpected =>
              ch_plugins[Len(ch_plugins) - 1].gain_db = 0 - ch_decision.de_esser_depth_db

\* C22 (amended): the same order, one limiter and it is last, the de-esser
\* present iff de_esser_mode is AUTO and de_esser_depth_db > 0 and then
\* immediately before the limiter, with gain -de_esser_depth_db rounded to 6
\* decimal places (a multiple of 1e-6 within 5e-7 of it).
C22_ChainOrderRoundedGain ==
    ChainBuilt =>
        /\ ChainInOrder
        /\ DeEsserExpected =>
              LET gain_db == ch_plugins[Len(ch_plugins) - 1].gain_db
              IN  /\ gain_db % 100 = 0
                  /\ Abs(gain_db + ch_decision.de_esser_depth_db) <= 50

\* a full chain: reference-match stages, dynamic EQ, compressor, gain, and a
\* de-esser whose depth has more than 6 decimals
C22_Witness ==
    /\ ch_pc = "built"
    /\ DeEsserExpected
    /\ ch_decision.de_esser_depth_db % 100 # 0
    /\ ch_args.eq_mode = "reference-match"
    /\ Len(ch_args.eq_band_corrections) = 2
    /\ HasDynamicEq
    /\ CountOf("Compressor") = 1

HasCompressor == CountOf("Compressor") >= 1

MultibandApplied ==
    \E i \in 1..Len(ch_applied) : ch_applied[i] = "multiband_compression"

\* C23: single-band and multiband compression are mutually exclusive in every
\* render: the single-band compressor stage is in the chain iff not
\* (advanced_mode and decision.multiband_compression_enabled), multiband
\* compression is applied to the raw buffer iff (advanced_mode and
\* decision.multiband_compression_enabled); never both and never neither.
C23_CompressionExclusive ==
    ch_pc = "rendered" =>
        /\ HasCompressor <=> ~MultibandSelected
        /\ MultibandApplied <=> MultibandSelected
        /\ ~(HasCompressor /\ MultibandApplied)
        /\ HasCompressor \/ MultibandApplied

\* a render without advanced_mode of a decision that asks for multiband
\* compression: the single-band compressor alone
C23_Witness ==
    /\ ch_pc = "rendered"
    /\ ch_decision.multiband_compression_enabled
    /\ ~ch_args.advanced_mode
    /\ HasCompressor
    /\ ~MultibandApplied

\* the stages between the base high shelf and the dynamic EQ, compressor or gain
ReferenceMatchStages ==
    SubSeq(ch_plugins, 4, DynamicsIndex - 1 - (IF HasDynamicEq THEN 1 ELSE 0))

RECURSIVE ClaimedStageKinds(_)
\* one low shelf at or below 250 Hz, one high shelf at or above 4 kHz, a pair between
ClaimedStageKinds(corrections) ==
    IF corrections = << >> THEN << >>
    ELSE (IF Head(corrections).center_hz <= 250 THEN << "LowShelfFilter" >>
          ELSE IF Head(corrections).center_hz >= 4000 THEN << "HighShelfFilter" >>
          ELSE << "LowShelfFilter", "HighShelfFilter" >>)
         \o ClaimedStageKinds(Tail(corrections))

\* C24 (as claimed): reference-match EQ stages are in the chain only when
\* eq_mode is REFERENCE_MATCH (none in FIXED mode, whatever corrections are
\* passed), and in REFERENCE_MATCH mode every EqBandCorrection contributes one
\* low-shelf/high-shelf pair, two stages per corrected band, placed after the
\* base high shelf and before the compressor.
C24_PairPerCorrection ==
    ChainBuilt =>
        /\ ChainInOrder
        /\ IF ch_args.eq_mode = "reference-match"
           THEN /\ Len(ReferenceMatchStages) = 2 * Len(ch_args.eq_band_corrections)
                /\ \A k \in 1..Len(ch_args.eq_band_corrections) :
                      /\ ReferenceMatchStages[2 * k - 1].plugin = "LowShelfFilter"
                      /\ ReferenceMatchStages[2 * k].plugin = "HighShelfFilter"
           ELSE ReferenceMatchStages = << >>

\* C24 (amended): reference-match EQ stages are in the chain only when eq_mode
\* is REFERENCE_MATCH (none in FIXED mode, whatever corrections are passed);
\* in REFERENCE_MATCH mode an EqBandCorrection centred at or below 250 Hz
\* contributes one low shelf, one centred at or above 4 kHz one high shelf,
\* and any other a low-shelf/high-shelf pair, in the order of the corrections,
\* after the base high shelf and before the dynamic EQ and the compressor.
C24_StagesPerCorrection ==
    ChainBuilt =>
        /\ ChainInOrder
        /\ [ i \in 1..Len(ReferenceMatchStages) |-> ReferenceMatchStages[i].plugin ]
             = IF ch_args.eq_mode = "reference-match"
               THEN ClaimedStageKinds(ch_args.eq_band_corrections)
               ELSE << >>

\* a reference-match chain from a low-band and a mid-band correction: three stages
C24_Witness ==
    /\ ch_pc = "built"
    /\ ch_args.eq_mode = "reference-match"
    /\ Len(ch_args.eq_band_corrections) = 2
    /\ ch_args.eq_band_corrections[1].center_hz = 100
    /\ ch_args.eq_band_corrections[2].center_hz = 1000
    /\ Len(ReferenceMatchStages) = 3

----------------------------------------------------------------------------
(* Short-time framing: _frame_signal, called directly and by               *)
(* _short_time_metrics.  Signals are lengths in samples, frames are        *)
(* (start, length) slices of the zero-padded signal, window durations are  *)
(* in ms and overlap ratios in percent; times are fractions of a second.   *)
(***************************************************************************)

MaxSignal == 8

SignalSizes == 0..MaxSignal

SampleRates == {4, 8}

WindowDurationsMs == {0, 250, 500, 1000}

OverlapRatiosPct == {-10, 0, 50, 75, 95, 100}

FrameEntries == {"_frame_signal", "_short_time_metrics"}

\* audio[start : start + frame_size]
Frame(start, frame_size) == [ start |-> start, length |-> frame_size ]

\* num / den seconds
Seconds(num, den) == [ num |-> num, den |-> den ]

\* frame_size = max(1, int(sample_rate * window_duration_s))
frame_size_of(sample_rate, window_duration_ms) ==
    Max(1, (sample_rate * window_duration_ms) \div 1000)

\* hop_size = max(1, int(frame_size * (1.0 - clip(overlap_ratio, 0.0, 0.95))))
hop_size_of(frame_size, overlap_ratio_pct) ==
    Max(1, (frame_size * (100 - Max(0, Min(95, overlap_ratio_pct)))) \div 100)

RECURSIVE arange(_, _, _)
\* np.arange(start, stop, step)
arange(start, stop, step) ==
    IF start >= stop THEN << >> ELSE << start >> \o arange(start + step, stop, step)

\* a framing that never adds the frame aligned to the end of the signal
frame_starts_no_tail(size, frame_size, hop_size) ==
    IF size <= frame_size THEN << 0 >>
    ELSE arange(0, size - frame_size + 1, hop_size)

\* the starts of the frames of _frame_signal; the one padded frame starts at 0
frame_starts(size, frame_size, hop_size) ==
    IF size <= frame_size THEN << 0 >>
    ELSE LET starts == arange(0, size - frame_size + 1, hop_size)
         IN  IF starts[Len(starts)] + frame_size < size
             THEN Append(starts, size - frame_size)
             ELSE starts

\* TemporalTrackMetrics(): every sequence empty
EmptyTemporalTrackMetrics ==
    [ frame_times_s |-> << >>, loudness_envelope_db |-> << >>,
      multiband_energy_trajectories |-> << >>, transient_density_trajectory |-> << >>,
      crest_factor_trajectory_db |-> << >> ]

\* a per-frame descriptor, identified by the frame it was computed from
Descriptor(name, frame) == [ descriptor |-> name, frame |-> frame ]

InitFrame ==
    /\ fr_pc = "call"
    /\ fr_args \in [ entry : FrameEntries, size : SignalSizes, sample_rate : SampleRates,
                     window_duration_ms : WindowDurationsMs,
                     overlap_ratio_pct : OverlapRatiosPct ]
    /\ fr_signal = 0
    /\ fr_starts = << >>
    /\ fr_out = "none"
    /\ pc = "idle"
    /\ profile = "default"
    /\ LoopIdle
    /\ DecideIdle
    /\ EqIdle
    /\ LookupIdle
    /\ ServiceIdle
    /\ PersistIdle
    /\ BatchIdle
    /\ ChainIdle

\* _short_time_metrics: if audio.size == 0: return TemporalTrackMetrics()
BeginShortTimeMetrics ==
    /\ fr_pc = "call"
    /\ fr_args.entry = "_short_time_metrics"
    /\ fr_signal' = fr_args.size
    /\ IF fr_args.size = 0
       THEN fr_out' = EmptyTemporalTrackMetrics /\ fr_pc' = "returned"
       ELSE fr_pc' = "frame" /\ UNCHANGED fr_out
    /\ UNCHANGED << fr_args, fr_starts, other_than_frame >>

\* a direct call of _frame_signal
BeginFrameSignal ==
    /\ fr_pc = "call"
    /\ fr_args.entry = "_frame_signal"
    /\ fr_signal' = fr_args.size
    /\ fr_pc' = "frame"
    /\ UNCHANGED << fr_args, fr_starts, fr_out, other_than_frame >>

\* _frame_signal: the padded signal, the frames, frame_size and hop_size
FrameSignal ==
    /\ fr_pc = "frame"
    /\ LET frame_size == frame_size_of(fr_args.sample_rate, fr_args.window_duration_ms)
           hop_size   == hop_size_of(frame_size, fr_args.overlap_ratio_pct)
           starts     == frame_starts(fr_signal, frame_size, hop_size)
       IN  /\ fr_signal' = IF fr_signal <= frame_size
                           THEN fr_signal + Max(0, frame_size - fr_signal)
                           ELSE fr_signal
           /\ fr_starts' = starts
           /\ fr_out' = [ frames |-> [ i \in 1..Len(starts) |-> Frame(starts[i], frame_size) ],
                          frame_size |-> frame_size,
                          hop_size |-> hop_size ]
    /\ fr_pc' = IF fr_args.entry = "_short_time_metrics" THEN "metrics" ELSE "returned"
    /\ UNCHANGED << fr_args, other_than_frame >>

\* _short_time_metrics: the frame times and the per-frame descriptors
ShortTimeMetrics ==
    /\ fr_pc = "metrics"
    /\ LET frames == fr_out.frames
           n      == Len(frames)
           per_frame(name) == [ i \in 1..n |-> Descriptor(name, frames[i]) ]
       IN  fr_out' =
             [ frame_times_s |->
                 [ i \in 1..n |-> Seconds(2 * (i - 1) * fr_out.hop_size + fr_out.frame_size,
                                          2 * fr_args.sample_rate) ],
               loudness_envelope_db |-> per_frame("rms_db"),
               multiband_energy_trajectories |-> per_frame("normalized_band_energy"),
               transient_density_trajectory |-> per_frame("transient_density"),
               crest_factor_trajectory_db |-> per_frame("crest_factor") ]
    /\ fr_pc' = "returned"
    /\ UNCHANGED << fr_args, fr_signal, fr_starts, other_than_frame >>

NextFrame ==
    \/ BeginShortTimeMetrics
    \/ BeginFrameSignal
    \/ FrameSignal
    \/ ShortTimeMetrics

SpecFrame == InitFrame /\ [][NextFrame]_vars

\* _frame_signal has returned its frames, to the caller or to _short_time_metrics
FramesReturned ==
    \/ fr_pc = "metrics"
    \/ fr_pc = "returned" /\ fr_args.entry = "_frame_signal"

\* the overlap ratio, in percent, clamped to [0, 0.95]
ClampedOverlapPct ==
    IF fr_args.overlap_ratio_pct < 0 THEN 0
    ELSE IF fr_args.overlap_ratio_pct > 95 THEN 95
    ELSE fr_args.overlap_ratio_pct

ClaimedFrameSize ==
    IF (fr_args.sample_rate * fr_args.window_duration_ms) \div 1000 >= 1
    THEN (fr_args.sample_rate * fr_args.window_duration_ms) \div 1000
    ELSE 1

\* the centre of a frame, in seconds
CentreTime(frame) == Seconds(2 * frame.start + frame.length, 2 * fr_args.sample_rate)

\* C26 (as claimed): for every non-empty signal, frame_times_s,
\* loudness_envelope_db, multiband_energy_trajectories,
\* transient_density_trajectory and crest_factor_trajectory_db all have one
\* entry per frame (at least one), entry i of each describes the same frame
\* i, and frame_times_s[i] is the centre time of that frame; a signal shorter
\* than one frame yields exactly one zero-padded frame.
C26_TimeAlignedTrajectories ==
    (fr_pc = "returned" /\ fr_args.entry = "_short_time_metrics" /\ fr_args.size > 0) =>
        LET n == Len(fr_starts)
            frame(i) == Frame(fr_starts[i], ClaimedFrameSize)
        IN  /\ n >= 1
            /\ Len(fr_out.frame_times_s) = n
            /\ Len(fr_out.loudness_envelope_db) = n
            /\ Len(fr_out.multiband_energy_trajectories) = n
            /\ Len(fr_out.transient_density_trajectory) = n
            /\ Len(fr_out.crest_factor_trajectory_db) = n
            /\ \A i \in 1..n :
                  /\ fr_out.loudness_envelope_db[i].frame = frame(i)
                  /\ fr_out.multiband_energy_trajectories[i].frame = frame(i)
                  /\ fr_out.transient_density_trajectory[i].frame = frame(i)
                  /\ fr_out.crest_factor_trajectory_db[i].frame = frame(i)
                  /\ fr_out.frame_times_s[i] = CentreTime(frame(i))
            /\ fr_args.size < ClaimedFrameSize =>
                  /\ n = 1
                  /\ fr_starts = << 0 >>
                  /\ fr_signal = ClaimedFrameSize

\* C29: for every non-empty signal length, sample rate, window duration and
\* overlap ratio, _frame_signal ends with at least one frame, every frame has
\* exactly frame_size samples lying entirely inside the (zero-padded) signal,
\* hop_size is max(1, floor(frame_size x (1 - overlap))) with overlap clamped
\* to [0, 0.95], and every sample of the signal is covered by at least one
\* frame (a final frame aligned to the signal end is appended when the
\* regular hops leave a tail uncovered).
C29_FramesCoverSignal ==
    /\ (fr_pc = "frame" /\ fr_args.size > 0) => ENABLED FrameSignal
    /\ (FramesReturned /\ fr_args.size > 0) =>
          LET frames == fr_out.frames
              n      == Len(frames)
              floor_hop == (fr_out.frame_size * (100 - ClampedOverlapPct)) \div 100
          IN  /\ n >= 1
              /\ fr_out.frame_size = ClaimedFrameSize
              /\ fr_out.hop_size = IF floor_hop >= 1 THEN floor_hop ELSE 1
              /\ fr_signal >= fr_args.size
              /\ \A i \in 1..n :
                    /\ frames[i].length = fr_out.frame_size
                    /\ frames[i].start >= 0
                    /\ frames[i].start + frames[i].length <= fr_signal
              /\ \A sample \in 0..(fr_args.size - 1) :
                    \E i \in 1..n : /\ frames[i].start <= sample
                                    /\ sample < frames[i].start + frames[i].length
              /\ \A i \in 1..(n - 1) :
                    \/ frames[i + 1].start = frames[i].start + fr_out.hop_size
                    \/ i + 1 = n /\ frames[n].start = fr_signal - fr_out.frame_size

\* five samples in frames of four with a hop of two: the frame at 0 and the
\* frame aligned to the end
C29_Witness ==
    /\ fr_pc = "returned"
    /\ fr_args.entry = "_frame_signal"
    /\ fr_args.size = 5
    /\ fr_out.frame_size = 4
    /\ fr_out.hop_size = 2
    /\ fr_starts = << 0, 1 >>

====
